---- MODULE Spec2Model ----
(***************************************************************************)
(* CleanWorld: semantic analyzer (semantic.py, symbols.py), runtime        *)
(* Environment, GridWorld and tree-walking Interpreter (interpreter.py),   *)
(* the front end (lexer.py, parser.py, cst.py, converter.py) and the        *)
(* pipeline entry point main.                                              *)
(***************************************************************************)
EXTENDS Integers, Sequences, FiniteSets, TLC

VARIABLES
    mode,        \* main: kind of input file, "clean" (source) or "json" (AST)
    ast,         \* the AST handed to analyze / Interpreter: [name, body]
    pc,          \* position in main / in the caller of the object under study
    errors,      \* list returned by analyze(ast)
    env,         \* Interpreter.env: chain of Environment.vars, current first
    const_vars,  \* Interpreter.const_vars
    grid,        \* Interpreter.grid: <<>> for None, <<g>> for a GridWorld g
    stack,       \* call stack of run / execute_if / execute_while
    status,      \* "idle", "running", "completed", "aborted"
    error,       \* kind of the exception that ended the run, "" if none
    raised,      \* number of exceptions raised by the run so far
    last,        \* the last statement or GridWorld call and how it ended
    loop,        \* the last execute_while call that returned or raised
    source,      \* the source text, a sequence of characters
    lex,         \* get_token_stream: pos, line_num, tokens, the errors printed
    cst          \* what parse_program gave: the CST, or the SyntaxError

vars == <<mode, ast, pc, errors, env, const_vars, grid, stack, status, error,
          raised, last, loop, source, lex, cst>>

\* the variables of the front end
front == <<source, lex, cst>>

(***************************************************************************)
(* Python values: int, bool, str and None.                                 *)
(***************************************************************************)
IntV(i) == [k |-> "int", n |-> i, s |-> ""]

BoolV(b) == [k |-> "bool", n |-> IF b THEN 1 ELSE 0, s |-> ""]

StrV(t) == [k |-> "str", n |-> 0, s |-> t]

NoneV == [k |-> "none", n |-> 0, s |-> ""]

\* int and bool take part in arithmetic (bool is a subclass of int)
IsNum(v) == v.k \in {"int", "bool"}

IsStr(v) == v.k = "str"

\* Python truth value
Truthy(v) ==
    CASE IsNum(v) -> v.n # 0
      [] IsStr(v) -> v.s # ""
      [] OTHER -> FALSE

\* Python ==
PyEq(a, b) ==
    CASE IsNum(a) /\ IsNum(b) -> a.n = b.n
      [] IsStr(a) /\ IsStr(b) -> a.s = b.s
      [] OTHER -> a.k = "none" /\ b.k = "none"

\* the strings of the language in lexicographic order
StrOrder == <<"", "east", "north", "south", "west">>

StrRank(t) == CHOOSE i \in 1..Len(StrOrder) : StrOrder[i] = t

RECURSIVE StrRepeat(_, _)
StrRepeat(t, i) == IF i <= 0 THEN "" ELSE t \o StrRepeat(t, i - 1)

\* result of a call that may raise
Ok(v) == [ok |-> TRUE, v |-> v, err |-> ""]

Raise(kind) == [ok |-> FALSE, v |-> NoneV, err |-> kind]

(***************************************************************************)
(* AST nodes, as built by converter.py.                                    *)
(***************************************************************************)
None == [type |-> "None"]

Literal(v) == [type |-> "Literal", value |-> v]

Identifier(nm) == [type |-> "Identifier", name |-> nm]

BinaryExpr(op, l, r) == [type |-> "BinaryExpr", operator |-> op, left |-> l, right |-> r]

VarDecl(nm, ty, init) == [type |-> "VarDecl", id |-> Identifier(nm), varType |-> ty, init |-> init]

ConstDecl(nm, ty, e) == [type |-> "ConstDecl", id |-> Identifier(nm), varType |-> ty, value |-> e]

Assign(nm, e) == [type |-> "Assign", target |-> Identifier(nm), value |-> e]

\* an optional statement list: Python None, or a list
NoneList == [isNone |-> TRUE, items |-> <<>>]

List(items) == [isNone |-> FALSE, items |-> items]

IfStmt(t, c, a) == [type |-> "IfStmt", test |-> t, consequent |-> c, alternate |-> a]

WhileStmt(t, b) == [type |-> "WhileStmt", test |-> t, body |-> b]

ActionStmt(a) == [type |-> "ActionStmt", action |-> a]

(***************************************************************************)
(* Environment                                                             *)
(***************************************************************************)
\* Environment(): no variables, no parent
NewEnvironment == << [nm \in {} |-> NoneV] >>

\* Environment.define on the current scope
define(e, nm, v) ==
    [e EXCEPT ![1] = [x \in DOMAIN e[1] \cup {nm} |-> IF x = nm THEN v ELSE e[1][x]]]

RECURSIVE get(_, _)
get(e, nm) ==
    IF nm \in DOMAIN e[1] THEN Ok(e[1][nm])
    ELSE IF Len(e) > 1 THEN get(Tail(e), nm)
    ELSE Raise("UndefinedVariable")

\* mutant: a name found nowhere is defined in the outermost scope
RECURSIVE set_Define(_, _, _)
set_Define(e, nm, v) ==
    IF nm \in DOMAIN e[1] THEN [ok |-> TRUE, env |-> [e EXCEPT ![1][nm] = v], err |-> ""]
    ELSE IF Len(e) > 1
         THEN LET r == set_Define(Tail(e), nm, v)
              IN  [ok |-> TRUE, env |-> <<e[1]>> \o r.env, err |-> ""]
    ELSE [ok |-> TRUE, env |-> define(e, nm, v), err |-> ""]

\* Environment.set: the new chain, or the exception
RECURSIVE set(_, _, _)
set(e, nm, v) ==
    IF nm \in DOMAIN e[1] THEN [ok |-> TRUE, env |-> [e EXCEPT ![1][nm] = v], err |-> ""]
    ELSE IF Len(e) > 1
         THEN LET r == set(Tail(e), nm, v)
              IN  IF r.ok THEN [ok |-> TRUE, env |-> <<e[1]>> \o r.env, err |-> ""] ELSE r
    ELSE [ok |-> FALSE, env |-> e, err |-> "UndefinedVariable"]

\* names bound anywhere in the chain
Bound(e) == UNION {DOMAIN e[i] : i \in 1..Len(e)}

(***************************************************************************)
(* GridWorld                                                               *)
(***************************************************************************)
DIRECTIONS == <<"north", "east", "south", "west">>

DirIndex(d) == (CHOOSE i \in 1..4 : DIRECTIONS[i] = d) - 1

GridWorld(w, h) ==
    [width |-> w, height |-> h, agent_x |-> 0, agent_y |-> 0,
     agent_direction |-> "north", dirt |-> {<<2, 2>>, <<3, 1>>, <<1, 3>>}]

\* the cell GridWorld.move computes
NextCell(g) ==
    CASE g.agent_direction = "north" -> <<g.agent_x, g.agent_y - 1>>
      [] g.agent_direction = "south" -> <<g.agent_x, g.agent_y + 1>>
      [] g.agent_direction = "east"  -> <<g.agent_x + 1, g.agent_y>>
      [] g.agent_direction = "west"  -> <<g.agent_x - 1, g.agent_y>>
      [] OTHER -> <<g.agent_x, g.agent_y>>

\* mutant: the upper bounds are inclusive
InBounds_Inclusive(g, c) == 0 <= c[1] /\ c[1] <= g.width /\ 0 <= c[2] /\ c[2] <= g.height

InBounds(g, c) == 0 <= c[1] /\ c[1] < g.width /\ 0 <= c[2] /\ c[2] < g.height

\* mutant: a move off the grid is clamped to the current cell
move_Clamp(g) ==
    LET c == NextCell(g)
    IN  IF InBounds(g, c)
        THEN [ok |-> TRUE, g |-> [g EXCEPT !.agent_x = c[1], !.agent_y = c[2]], err |-> ""]
        ELSE [ok |-> TRUE, g |-> g, err |-> ""]

\* GridWorld.move: the new grid, or the exception
move(g) ==
    LET c == NextCell(g)
    IN  IF InBounds(g, c)
        THEN [ok |-> TRUE, g |-> [g EXCEPT !.agent_x = c[1], !.agent_y = c[2]], err |-> ""]
        ELSE [ok |-> FALSE, g |-> g, err |-> "OutOfBounds"]

\* mutant: the index is not taken modulo 4, north has nothing to its left
turn_left_NoWrap(g) ==
    [g EXCEPT !.agent_direction =
        IF DirIndex(g.agent_direction) = 0 THEN "north"
        ELSE DIRECTIONS[DirIndex(g.agent_direction)]]

turn_left(g) == [g EXCEPT !.agent_direction = DIRECTIONS[((DirIndex(g.agent_direction) - 1) % 4) + 1]]

turn_right(g) == [g EXCEPT !.agent_direction = DIRECTIONS[((DirIndex(g.agent_direction) + 1) % 4) + 1]]

\* mutant: the cell is toggled
clean_Toggle(g) ==
    IF <<g.agent_x, g.agent_y>> \in g.dirt
    THEN [g EXCEPT !.dirt = g.dirt \ {<<g.agent_x, g.agent_y>>}]
    ELSE [g EXCEPT !.dirt = g.dirt \cup {<<g.agent_x, g.agent_y>>}]

clean(g) ==
    IF <<g.agent_x, g.agent_y>> \in g.dirt
    THEN [g EXCEPT !.dirt = g.dirt \ {<<g.agent_x, g.agent_y>>}]
    ELSE g

sense(g) == <<g.agent_x, g.agent_y>> \in g.dirt

(***************************************************************************)
(* Interpreter: expression evaluation                                      *)
(***************************************************************************)
\* mutant: no test of the divisor, Python raises its own ZeroDivisionError
Arith_NoZeroCheck(op, l, r) ==
    CASE op = "+" ->
           IF IsNum(l) /\ IsNum(r) THEN Ok(IntV(l.n + r.n))
           ELSE IF IsStr(l) /\ IsStr(r) THEN Ok(StrV(l.s \o r.s))
           ELSE Raise("TypeError")
      [] op = "-" ->
           IF IsNum(l) /\ IsNum(r) THEN Ok(IntV(l.n - r.n)) ELSE Raise("TypeError")
      [] op = "*" ->
           IF IsNum(l) /\ IsNum(r) THEN Ok(IntV(l.n * r.n))
           ELSE IF IsStr(l) /\ IsNum(r) THEN Ok(StrV(StrRepeat(l.s, r.n)))
           ELSE IF IsNum(l) /\ IsStr(r) THEN Ok(StrV(StrRepeat(r.s, l.n)))
           ELSE Raise("TypeError")
      [] op = "/" ->
           IF IsNum(l) /\ IsNum(r)
           THEN IF r.n = 0 THEN Raise("ZeroDivisionError") ELSE Ok(IntV(l.n \div r.n))
           ELSE Raise("TypeError")

Arith(op, l, r) ==
    CASE op = "+" ->
           IF IsNum(l) /\ IsNum(r) THEN Ok(IntV(l.n + r.n))
           ELSE IF IsStr(l) /\ IsStr(r) THEN Ok(StrV(l.s \o r.s))
           ELSE Raise("TypeError")
      [] op = "-" ->
           IF IsNum(l) /\ IsNum(r) THEN Ok(IntV(l.n - r.n)) ELSE Raise("TypeError")
      [] op = "*" ->
           IF IsNum(l) /\ IsNum(r) THEN Ok(IntV(l.n * r.n))
           ELSE IF IsStr(l) /\ IsNum(r) THEN Ok(StrV(StrRepeat(l.s, r.n)))
           ELSE IF IsNum(l) /\ IsStr(r) THEN Ok(StrV(StrRepeat(r.s, l.n)))
           ELSE Raise("TypeError")
      [] op = "/" ->
           IF PyEq(r, IntV(0)) THEN Raise("DivisionByZero")
           ELSE IF IsNum(l) /\ IsNum(r) THEN Ok(IntV(l.n \div r.n))
           ELSE Raise("TypeError")

Relational(op, l, r) ==
    CASE op = "==" -> Ok(BoolV(PyEq(l, r)))
      [] op = "!=" -> Ok(BoolV(~PyEq(l, r)))
      [] OTHER ->
           IF ~((IsNum(l) /\ IsNum(r)) \/ (IsStr(l) /\ IsStr(r))) THEN Raise("TypeError")
           ELSE LET a == IF IsNum(l) THEN l.n ELSE StrRank(l.s)
                    b == IF IsNum(r) THEN r.n ELSE StrRank(r.s)
                IN  CASE op = "<"  -> Ok(BoolV(a < b))
                      [] op = "<=" -> Ok(BoolV(a <= b))
                      [] op = ">"  -> Ok(BoolV(a > b))
                      [] op = ">=" -> Ok(BoolV(a >= b))

\* evaluate_binary_expr once both operands have been evaluated
ApplyOperator(op, l, r) ==
    CASE op \in {"+", "-", "*", "/"} -> Arith(op, l, r)
      [] op \in {"==", "!=", "<", "<=", ">", ">="} -> Relational(op, l, r)
      [] op = "and" -> Ok(IF Truthy(l) THEN r ELSE l)
      [] op = "or" -> Ok(IF Truthy(l) THEN l ELSE r)
      [] OTHER -> Raise("UnknownOperator")

RECURSIVE evaluate_expr(_, _, _)
evaluate_binary_expr(expr, e, g) ==
    IF expr.operator = "not"
    THEN LET r == evaluate_expr(expr.left, e, g)
         IN  IF r.ok THEN Ok(BoolV(~Truthy(r.v))) ELSE r
    ELSE LET l == evaluate_expr(expr.left, e, g)
         IN  IF ~l.ok THEN l
             ELSE LET r == evaluate_expr(expr.right, e, g)
                  IN  IF ~r.ok THEN r ELSE ApplyOperator(expr.operator, l.v, r.v)

evaluate_expr(expr, e, g) ==
    CASE expr = None -> Ok(NoneV)
      [] expr.type = "Literal" -> Ok(expr.value)
      [] expr.type = "Identifier" ->
           IF expr.name = "sense"
           THEN IF g # <<>> THEN Ok(BoolV(sense(g[1]))) ELSE Raise("SenseGridNotInitialized")
           ELSE IF expr.name = "dirt" THEN Raise("DirtIdentifier")
           ELSE get(e, expr.name)
      [] expr.type = "BinaryExpr" -> evaluate_binary_expr(expr, e, g)
      [] OTHER -> Raise("UnknownExpression")

(***************************************************************************)
(* Scope (symbols.py) and analyze (semantic.py)                            *)
(***************************************************************************)
\* Scope(None, 0): a single level, names maps a name to its category
NewScope == [nm \in {} |-> ""]

\* mutant: a duplicate declaration silently replaces the symbol
declare_Overwrite(names, nm, category) ==
    [ok |-> TRUE, names |-> [x \in DOMAIN names \cup {nm} |-> IF x = nm THEN category ELSE names[x]]]

\* Scope.declare: the new names, or KeyError on a duplicate
declare(names, nm, category) ==
    IF nm \in DOMAIN names
    THEN [ok |-> FALSE, names |-> names]
    ELSE [ok |-> TRUE, names |-> [x \in DOMAIN names \cup {nm} |-> IF x = nm THEN category ELSE names[x]]]

\* Scope.resolve: the category of the symbol, "" for None
resolve(names, nm) == IF nm \in DOMAIN names THEN names[nm] ELSE ""

Diag(code, what, nm) == [code |-> code, what |-> what, name |-> nm]

\* declaration pass, over the top-level body
RECURSIVE DeclarationPass(_, _, _)
DeclarationPass(body, names, errs) ==
    IF body = <<>> THEN [names |-> names, errors |-> errs]
    ELSE LET stmt == Head(body)
         IN  IF stmt.type \in {"ConstDecl", "VarDecl"}
             THEN LET category == IF stmt.type = "ConstDecl" THEN "const" ELSE "var"
                      d == declare(names, stmt.id.name, category)
                  IN  DeclarationPass(Tail(body), d.names,
                         IF d.ok THEN errs
                         ELSE Append(errs, Diag("E_DUP_DECL", "Duplicate declaration", stmt.id.name)))
             ELSE DeclarationPass(Tail(body), names, errs)

\* resolve_expr: the diagnostics it appends
RECURSIVE resolve_expr(_, _)
resolve_expr(expr, names) ==
    CASE expr = None -> <<>>
      [] expr.type = "Identifier" ->
           IF resolve(names, expr.name) = ""
           THEN <<Diag("E_UNDEFINED", "Undefined identifier", expr.name)>>
           ELSE <<>>
      [] expr.type = "BinaryExpr" ->
           resolve_expr(expr.left, names) \o resolve_expr(expr.right, names)
      [] OTHER -> <<>>

\* mutant: the category of the resolved symbol is not looked at
CheckTarget_NoConst(stmt, names) ==
    IF stmt.target # None /\ stmt.target.type = "Identifier"
    THEN IF resolve(names, stmt.target.name) = ""
         THEN <<Diag("E_UNDEFINED", "Undefined variable", stmt.target.name)>>
         ELSE <<>>
    ELSE <<>>

\* the target check of an Assign
CheckTarget(stmt, names) ==
    IF stmt.target # None /\ stmt.target.type = "Identifier"
    THEN LET sym == resolve(names, stmt.target.name)
         IN  IF sym = "" THEN <<Diag("E_UNDEFINED", "Undefined variable", stmt.target.name)>>
             ELSE IF sym = "const"
                  THEN <<Diag("E_CONST_ASSIGN", "Cannot reassign constant", stmt.target.name)>>
             ELSE <<>>
    ELSE <<>>

\* check_statements: the diagnostics it appends
RECURSIVE check_statements(_, _)
check_statements(statements, names) ==
    IF statements = <<>> THEN <<>>
    ELSE LET stmt == Head(statements)
             here ==
               CASE stmt.type = "Assign" ->
                      CheckTarget(stmt, names) \o resolve_expr(stmt.value, names)
                 [] stmt.type = "IfStmt" ->
                      resolve_expr(stmt.test, names)
                      \o check_statements(stmt.consequent, names)
                      \o (IF ~stmt.alternate.isNone /\ stmt.alternate.items # <<>>
                          THEN check_statements(stmt.alternate.items, names) ELSE <<>>)
                 [] stmt.type = "WhileStmt" ->
                      resolve_expr(stmt.test, names) \o check_statements(stmt.body, names)
                 [] OTHER -> <<>>
         IN  here \o check_statements(Tail(statements), names)

analyze(a) ==
    LET d == DeclarationPass(a.body, NewScope, <<>>)
    IN  d.errors \o check_statements(a.body, d.names)

\* `stmt.get("type")` of both passes on a statement that is a Python list,
\* the value convert_statement gives for a block: AttributeError
RECURSIVE get_raises(_)
get_raises(statements) ==
    \E i \in 1..Len(statements) :
        LET stmt == statements[i]
        IN  \/ stmt.type = "list"
            \/ /\ stmt.type = "IfStmt"
               /\ \/ get_raises(stmt.consequent)
                  \/ ~stmt.alternate.isNone /\ get_raises(stmt.alternate.items)
            \/ stmt.type = "WhileStmt" /\ get_raises(stmt.body)

\* analyze does not return: no except clause of analyze catches AttributeError
analyze_raises(a) == get_raises(a.body)

(***************************************************************************)
(* Interpreter: statement execution.  The recursion of run, execute_if and *)
(* execute_while is kept as a stack of frames: a "block" frame is a `for`  *)
(* loop over a statement list, a "while" frame is an execute_while call.  *)
(***************************************************************************)
max_iterations == 10000

BlockFrame(stmts) ==
    [kind |-> "block", stmts |-> stmts, i |-> 1, stmt |-> None,
     iteration |-> 0, tests |-> 0, runs |-> 0]

WhileFrame(stmt) ==
    [kind |-> "while", stmts |-> <<>>, i |-> 0, stmt |-> stmt,
     iteration |-> 0, tests |-> 0, runs |-> 0]

Top == stack[Len(stack)]

Pop(st) == SubSeq(st, 1, Len(st) - 1)

\* the `for` loop of the top frame moves to its next statement
Step(st) == [st EXCEPT ![Len(st)].i = @ + 1]

\* Return: the call of the top frame returns to its caller, which goes on:
\* execute_while with its next test, a `for` loop with its next statement.
\* Unwind: return from every `for` loop that has no statement left.
RECURSIVE Return(_), Unwind(_)
Return(st) ==
    LET rest == Pop(st)
    IN  IF rest = <<>> THEN rest
        ELSE IF rest[Len(rest)].kind = "while"
             THEN [rest EXCEPT ![Len(rest)].runs = @ + 1]
             ELSE Unwind(Step(rest))

Unwind(st) ==
    IF st = <<>> THEN st
    ELSE IF st[Len(st)].kind = "block" /\ st[Len(st)].i > Len(st[Len(st)].stmts)
         THEN Return(st)
         ELSE st

Running == status = "running" /\ stack # <<>>

\* the statement execute_stmt is about to be called with
CurStmt == IF Running /\ Top.kind = "block" THEN Top.stmts[Top.i] ELSE None

Executing(t) == Running /\ Top.kind = "block" /\ CurStmt.type = t

\* the statement returned: continue with what follows it
Continue(st) ==
    /\ stack' = Unwind(st)
    /\ status' = IF Unwind(st) = <<>> THEN "completed" ELSE "running"
    /\ last' = [top |-> stack[1].i, stmt |-> CurStmt]
    /\ UNCHANGED <<error, raised>>

\* mutant: the exception is recorded and the run goes on with the next statement
Abort_Swallow(kind) ==
    /\ stack' = Unwind(Step(stack))
    /\ status' = IF Unwind(Step(stack)) = <<>> THEN "completed" ELSE "running"
    /\ error' = kind
    /\ raised' = raised + 1
    /\ last' = [top |-> stack[1].i, stmt |-> CurStmt]
    /\ UNCHANGED <<env, const_vars, grid>>

\* the statement raised: the exception leaves run
Abort(kind) ==
    /\ status' = "aborted"
    /\ error' = kind
    /\ raised' = raised + 1
    /\ last' = [top |-> stack[1].i, stmt |-> CurStmt]
    /\ UNCHANGED <<stack, env, const_vars, grid>>

\* Interpreter.run
run ==
    /\ pc = "run"
    /\ status = "idle"
    /\ stack' = Unwind(<<BlockFrame(ast.body)>>)
    /\ status' = IF Unwind(<<BlockFrame(ast.body)>>) = <<>> THEN "completed" ELSE "running"
    /\ UNCHANGED <<mode, ast, pc, errors, env, const_vars, grid, error, raised, last, loop>>
    /\ UNCHANGED front

DefaultValue(var_type) ==
    CASE var_type = "int" -> IntV(0)
      [] var_type = "bool" -> BoolV(FALSE)
      [] var_type = "direction" -> StrV("north")
      [] OTHER -> NoneV

execute_var_decl ==
    /\ Executing("VarDecl")
    /\ LET stmt == CurStmt
           r == IF stmt.init # None THEN evaluate_expr(stmt.init, env, grid)
                ELSE Ok(DefaultValue(stmt.varType))
       IN  IF r.ok
           THEN /\ env' = define(env, stmt.id.name, r.v)
                /\ Continue(Step(stack))
                /\ UNCHANGED <<const_vars, grid>>
           ELSE Abort(r.err)
    /\ UNCHANGED <<mode, ast, pc, errors, loop>>
    /\ UNCHANGED front

execute_const_decl ==
    /\ Executing("ConstDecl")
    /\ LET stmt == CurStmt
           r == evaluate_expr(stmt.value, env, grid)
       IN  IF r.ok
           THEN /\ env' = define(env, stmt.id.name, r.v)
                /\ const_vars' = const_vars \cup {stmt.id.name}
                /\ Continue(Step(stack))
                /\ UNCHANGED grid
           ELSE Abort(r.err)
    /\ UNCHANGED <<mode, ast, pc, errors, loop>>
    /\ UNCHANGED front

\* mutant: the value is evaluated before the const-name set is consulted
AssignResult_EvalFirst(stmt, e, consts, g) ==
    LET r == evaluate_expr(stmt.value, e, g)
    IN  IF ~r.ok THEN [ok |-> FALSE, env |-> e, err |-> r.err]
        ELSE IF stmt.target.name \in consts
             THEN [ok |-> FALSE, env |-> e, err |-> "ConstAssignment"]
        ELSE set(e, stmt.target.name, r.v)

\* what execute_assign does to the Environment, or the exception it raises
AssignResult(stmt, e, consts, g) ==
    IF stmt.target.name \in consts
    THEN [ok |-> FALSE, env |-> e, err |-> "ConstAssignment"]
    ELSE LET r == evaluate_expr(stmt.value, e, g)
         IN  IF r.ok THEN set(e, stmt.target.name, r.v)
             ELSE [ok |-> FALSE, env |-> e, err |-> r.err]

execute_assign ==
    /\ Executing("Assign")
    /\ LET r == AssignResult(CurStmt, env, const_vars, grid)
       IN  IF r.ok
           THEN /\ env' = r.env
                /\ Continue(Step(stack))
                /\ UNCHANGED <<const_vars, grid>>
           ELSE Abort(r.err)
    /\ UNCHANGED <<mode, ast, pc, errors, loop>>
    /\ UNCHANGED front

\* the statement list execute_if goes through for a test value
Branch(stmt, condition) ==
    IF Truthy(condition) THEN stmt.consequent
    ELSE IF ~stmt.alternate.isNone /\ stmt.alternate.items # <<>> THEN stmt.alternate.items
    ELSE <<>>

execute_if ==
    /\ Executing("IfStmt")
    /\ LET stmt == CurStmt
           r == evaluate_expr(stmt.test, env, grid)
       IN  IF r.ok
           THEN /\ Continue(Append(stack, BlockFrame(Branch(stmt, r.v))))
                /\ UNCHANGED <<env, const_vars, grid>>
           ELSE Abort(r.err)
    /\ UNCHANGED <<mode, ast, pc, errors, loop>>
    /\ UNCHANGED front

\* execute_while is entered: iteration = 0
execute_while ==
    /\ Executing("WhileStmt")
    /\ Continue(Append(stack, WhileFrame(CurStmt)))
    /\ UNCHANGED <<mode, ast, pc, errors, env, const_vars, grid, loop>>
    /\ UNCHANGED front

\* mutant: the cap is tested with >=
ExceedsCap_OffByOne(iteration) == iteration >= max_iterations

\* mutant: no cap, the loop goes on as long as its test holds
ExceedsCap_Never(iteration) == FALSE

\* the iteration cap of execute_while
ExceedsCap(iteration) == iteration > max_iterations

\* one evaluation of the test of the `while` in execute_while; the count of
\* the tests of one call is bounded: the test after max_iterations + 1 tests
\* is not modelled
while_test ==
    /\ Running
    /\ Top.kind = "while"
    /\ Top.tests <= max_iterations
    /\ LET f == Top
           r == evaluate_expr(f.stmt.test, env, grid)
       IN  IF ~r.ok
           THEN /\ status' = "aborted" /\ error' = r.err /\ raised' = raised + 1
                /\ stack' = [stack EXCEPT ![Len(stack)].tests = @ + 1]
                /\ loop' = [outcome |-> "failed", tests |-> f.tests + 1, runs |-> f.runs]
           ELSE IF ~Truthy(r.v)
           THEN /\ stack' = Return(stack)
                /\ status' = IF Return(stack) = <<>> THEN "completed" ELSE "running"
                /\ loop' = [outcome |-> "returned", tests |-> f.tests + 1, runs |-> f.runs]
                /\ UNCHANGED <<error, raised>>
           ELSE IF ExceedsCap(f.iteration + 1)
           THEN /\ status' = "aborted" /\ error' = "InfiniteLoop" /\ raised' = raised + 1
                /\ stack' = [stack EXCEPT ![Len(stack)].tests = @ + 1,
                                          ![Len(stack)].iteration = @ + 1]
                /\ loop' = [outcome |-> "raised", tests |-> f.tests + 1, runs |-> f.runs]
           ELSE /\ stack' = Unwind(Append([stack EXCEPT ![Len(stack)].tests = @ + 1,
                                                        ![Len(stack)].iteration = @ + 1],
                                          BlockFrame(f.stmt.body)))
                /\ UNCHANGED <<status, error, raised, loop>>
    /\ UNCHANGED <<mode, ast, pc, errors, env, const_vars, grid, last>>
    /\ UNCHANGED front

\* mutant: without a grid, the first action creates the default one
ActionResult_LazyGrid(action, g) ==
    LET h == IF g = <<>> THEN <<GridWorld(5, 5)>> ELSE g
    IN  CASE action = "move" ->
               LET m == move(h[1]) IN [ok |-> m.ok, g |-> <<m.g>>, err |-> m.err]
          [] action = "turnLeft" -> [ok |-> TRUE, g |-> <<turn_left(h[1])>>, err |-> ""]
          [] action = "turnRight" -> [ok |-> TRUE, g |-> <<turn_right(h[1])>>, err |-> ""]
          [] action = "clean" -> [ok |-> TRUE, g |-> <<clean(h[1])>>, err |-> ""]
          [] action = "sense" -> [ok |-> TRUE, g |-> h, err |-> ""]
          [] OTHER -> [ok |-> FALSE, g |-> g, err |-> "UnknownAction"]

\* mutant: the sense action takes the dirt it finds
ActionResult_SenseCleans(action, g) ==
    IF g = <<>> THEN [ok |-> FALSE, g |-> g, err |-> "GridNotInitialized"]
    ELSE CASE action = "move" ->
                LET m == move(g[1]) IN [ok |-> m.ok, g |-> <<m.g>>, err |-> m.err]
           [] action = "turnLeft" -> [ok |-> TRUE, g |-> <<turn_left(g[1])>>, err |-> ""]
           [] action = "turnRight" -> [ok |-> TRUE, g |-> <<turn_right(g[1])>>, err |-> ""]
           [] action = "clean" -> [ok |-> TRUE, g |-> <<clean(g[1])>>, err |-> ""]
           [] action = "sense" -> [ok |-> TRUE, g |-> <<clean(g[1])>>, err |-> ""]
           [] OTHER -> [ok |-> FALSE, g |-> g, err |-> "UnknownAction"]

\* what execute_action does to the grid, or the exception it raises
ActionResult(action, g) ==
    IF g = <<>> THEN [ok |-> FALSE, g |-> g, err |-> "GridNotInitialized"]
    ELSE CASE action = "move" ->
                LET m == move(g[1]) IN [ok |-> m.ok, g |-> <<m.g>>, err |-> m.err]
           [] action = "turnLeft" -> [ok |-> TRUE, g |-> <<turn_left(g[1])>>, err |-> ""]
           [] action = "turnRight" -> [ok |-> TRUE, g |-> <<turn_right(g[1])>>, err |-> ""]
           [] action = "clean" -> [ok |-> TRUE, g |-> <<clean(g[1])>>, err |-> ""]
           [] action = "sense" -> [ok |-> TRUE, g |-> g, err |-> ""]
           [] OTHER -> [ok |-> FALSE, g |-> g, err |-> "UnknownAction"]

execute_action ==
    /\ Executing("ActionStmt")
    /\ LET r == ActionResult(CurStmt.action, grid)
       IN  IF r.ok
           THEN /\ grid' = r.g
                /\ Continue(Step(stack))
                /\ UNCHANGED <<env, const_vars>>
           ELSE Abort(r.err)
    /\ UNCHANGED <<mode, ast, pc, errors, loop>>
    /\ UNCHANGED front

StatementTypes == {"VarDecl", "ConstDecl", "Assign", "IfStmt", "WhileStmt", "ActionStmt"}

\* the else branch of execute_stmt; `stmt.get('type')` of a statement that is
\* a Python list raises before it
execute_unknown ==
    /\ Running
    /\ Top.kind = "block"
    /\ CurStmt.type \notin StatementTypes
    /\ Abort(IF CurStmt.type = "list" THEN "AttributeError" ELSE "UnknownStatement")
    /\ UNCHANGED <<mode, ast, pc, errors, loop>>
    /\ UNCHANGED front

execute_stmt ==
    \/ execute_var_decl
    \/ execute_const_decl
    \/ execute_assign
    \/ execute_if
    \/ execute_while
    \/ while_test
    \/ execute_action
    \/ execute_unknown

(***************************************************************************)
(* Lexer (lexer.py).  A text is a sequence of characters; offsets count    *)
(* from 0 as in Python, so the character at offset p is text[p + 1].       *)
(***************************************************************************)
Letters ==
    {"a", "b", "c", "d", "e", "f", "g", "h", "i", "j", "k", "l", "m", "n", "o", "p", "q", "r", "s", "t", "u", "v", "w", "x", "y", "z",
     "A", "B", "C", "D", "E", "F", "G", "H", "I", "J", "K", "L", "M", "N", "O", "P", "Q", "R", "S", "T", "U", "V", "W", "X", "Y", "Z"}

Digits == {"0", "1", "2", "3", "4", "5", "6", "7", "8", "9"}

\* \w
IsWordChar(c) == c \in Letters \cup Digits \cup {"_"}

\* \b at offset p: a word character on exactly one side
Boundary(text, p) ==
    LET before == p >= 1 /\ IsWordChar(text[p])
        after == p < Len(text) /\ IsWordChar(text[p + 1])
    IN  before # after

\* the characters w stand at offset p
Literally(text, p, w) ==
    /\ p + Len(w) <= Len(text)
    /\ \A i \in 1..Len(w) : text[p + i] = w[i]

\* how many characters of the class C follow offset p (a greedy C*)
RECURSIVE Run(_, _, _)
Run(text, p, C) ==
    IF p < Len(text) /\ text[p + 1] \in C THEN 1 + Run(text, p + 1, C) ELSE 0

\* how many characters other than a newline follow offset p (a greedy .*)
RECURSIVE ToLineEnd(_, _)
ToLineEnd(text, p) ==
    IF p < Len(text) /\ text[p + 1] # "\n" THEN 1 + ToLineEnd(text, p + 1) ELSE 0

Pattern(kind, pat, words) == [kind |-> kind, pat |-> pat, words |-> words]

\* token_specification, in its order
token_specification ==
    << Pattern("GRID", "word", <<<<"g", "r", "i", "d">>>>),
       Pattern("PROGRAM", "word", <<<<"p", "r", "o", "g", "r", "a", "m">>>>),
       Pattern("CONST", "word", <<<<"c", "o", "n", "s", "t">>>>),
       Pattern("VAR", "word", <<<<"v", "a", "r">>>>),
       Pattern("TYPE_INT", "word", <<<<"i", "n", "t">>>>),
       Pattern("TYPE_BOOL", "word", <<<<"b", "o", "o", "l">>>>),
       Pattern("TYPE_DIRECTION", "word", <<<<"d", "i", "r", "e", "c", "t", "i", "o", "n">>>>),
       Pattern("WHILE", "word", <<<<"w", "h", "i", "l", "e">>>>),
       Pattern("IF", "word", <<<<"i", "f">>>>),
       Pattern("ELSE", "word", <<<<"e", "l", "s", "e">>>>),
       Pattern("MOVE", "word", <<<<"m", "o", "v", "e">>>>),
       Pattern("TURN_LEFT", "word", <<<<"t", "u", "r", "n", "L", "e", "f", "t">>>>),
       Pattern("TURN_RIGHT", "word", <<<<"t", "u", "r", "n", "R", "i", "g", "h", "t">>>>),
       Pattern("SENSE", "word", <<<<"s", "e", "n", "s", "e">>>>),
       Pattern("CLEAN", "word", <<<<"c", "l", "e", "a", "n">>>>),
       Pattern("BOOL_LITERAL", "word", <<<<"t", "r", "u", "e">>, <<"f", "a", "l", "s", "e">>>>),
       Pattern("DIRECTION_LITERAL", "word", <<<<"n", "o", "r", "t", "h">>, <<"s", "o", "u", "t", "h">>, <<"e", "a", "s", "t">>, <<"w", "e", "s", "t">>>>),
       Pattern("STRING_LITERAL", "string", <<>>),
       Pattern("AND", "word", <<<<"a", "n", "d">>>>),
       Pattern("OR", "word", <<<<"o", "r">>>>),
       Pattern("NOT", "word", <<<<"n", "o", "t">>>>),
       Pattern("INT_LITERAL", "digits", <<>>),
       Pattern("EQ", "exact", <<<<"=", "=">>>>),
       Pattern("NEQ", "exact", <<<<"!", "=">>>>),
       Pattern("LE", "exact", <<<<"<", "=">>>>),
       Pattern("GE", "exact", <<<<">", "=">>>>),
       Pattern("LT", "exact", <<<<"<">>>>),
       Pattern("GT", "exact", <<<<">">>>>),
       Pattern("ASSIGN", "exact", <<<<"=">>>>),
       Pattern("PLUS", "exact", <<<<"+">>>>),
       Pattern("MINUS", "exact", <<<<"-">>>>),
       Pattern("MUL", "exact", <<<<"*">>>>),
       Pattern("DIV", "exact", <<<<"/">>>>),
       Pattern("LPAREN", "exact", <<<<"(">>>>),
       Pattern("RPAREN", "exact", <<<<")">>>>),
       Pattern("LBRACE", "exact", <<<<"{">>>>),
       Pattern("RBRACE", "exact", <<<<"}">>>>),
       Pattern("SEMICOLON", "exact", <<<<";">>>>),
       Pattern("COLON", "exact", <<<<":">>>>),
       Pattern("COMMA", "exact", <<<<",">>>>),
       Pattern("COMMENT", "comment", <<>>),
       Pattern("ID", "id", <<>>),
       Pattern("NEWLINE", "newline", <<>>),
       Pattern("SKIP", "skip", <<>>),
       Pattern("MISMATCH", "any", <<>>) >>

\* the length of the match of one pattern at offset p, 0 when it does not match
Match(pt, text, p) ==
    CASE pt.pat = "word" ->
           LET hit == { i \in DOMAIN pt.words :
                          /\ Literally(text, p, pt.words[i])
                          /\ Boundary(text, p)
                          /\ Boundary(text, p + Len(pt.words[i])) }
           IN  IF hit = {} THEN 0
               ELSE Len(pt.words[CHOOSE i \in hit : \A j \in hit : i <= j])
      [] pt.pat = "exact" -> IF Literally(text, p, pt.words[1]) THEN Len(pt.words[1]) ELSE 0
      [] pt.pat = "string" ->
           IF p < Len(text) /\ text[p + 1] = "\""
           THEN LET k == Run(text, p + 1, Letters \cup Digits \cup {"_", " "})
                IN  IF p + 1 + k < Len(text) /\ text[p + k + 2] = "\"" THEN k + 2 ELSE 0
           ELSE 0
      [] pt.pat = "digits" -> Run(text, p, Digits)
      [] pt.pat = "comment" ->
           IF p < Len(text) /\ text[p + 1] = "#" THEN 1 + ToLineEnd(text, p + 1) ELSE 0
      [] pt.pat = "id" ->
           IF p < Len(text) /\ text[p + 1] \in Letters \cup {"_"}
           THEN 1 + Run(text, p + 1, Letters \cup Digits \cup {"_"})
           ELSE 0
      [] pt.pat = "newline" -> IF p < Len(text) /\ text[p + 1] = "\n" THEN 1 ELSE 0
      [] pt.pat = "skip" -> Run(text, p, {" ", "\t"})
      [] pt.pat = "any" -> IF p < Len(text) /\ text[p + 1] # "\n" THEN 1 ELSE 0

\* no match object
NoMatch == [kind |-> "", start |-> 0, end |-> 0]

\* the alternatives of the regular expression from the i-th on, tried in order
RECURSIVE FirstMatch(_, _, _)
FirstMatch(text, p, i) ==
    IF i > Len(token_specification) THEN NoMatch
    ELSE LET n == Match(token_specification[i], text, p)
         IN  IF n > 0
             THEN [kind |-> token_specification[i].kind, start |-> p, end |-> p + n]
             ELSE FirstMatch(text, p, i + 1)

\* mutant: a character no token starts with is skipped, the next match returned
get_token_Search(text, p) ==
    IF FirstMatch(text, p, 1).kind = "MISMATCH"
    THEN FirstMatch(text, p + 1, 1)
    ELSE FirstMatch(text, p, 1)

\* get_token: the first pattern of token_specification that matches at pos
get_token(text, p) == FirstMatch(text, p, 1)

\* get_token_stream before its loop, the first match made
NewLex(text) ==
    [pos |-> 0, line_num |-> 1, tokens |-> <<>>, reports |-> <<>>, spans |-> <<>>,
     mo |-> get_token(text, 0)]

\* the match object of the loop
mo == lex.mo

\* mo.group()
value == SubSeq(source, mo.start + 1, mo.end)

\* pos = mo.end(); mo = get_token(code, pos); the match is noted in spans
Scanned(l) ==
    [l EXCEPT !.pos = mo.end, !.mo = get_token(source, mo.end), !.spans = Append(@, mo)]

LexIdle ==
    UNCHANGED <<mode, ast, errors, env, const_vars, grid, stack, status, error,
                raised, last, loop, source, cst>>

lex_newline ==
    /\ pc = "lex"
    /\ mo.kind = "NEWLINE"
    /\ lex' = Scanned([lex EXCEPT !.line_num = @ + 1])
    /\ pc' = pc
    /\ LexIdle

lex_skip ==
    /\ pc = "lex"
    /\ mo.kind \in {"SKIP", "COMMENT"}
    /\ lex' = Scanned(lex)
    /\ pc' = pc
    /\ LexIdle

\* the "Lexical Error" line printed
lex_mismatch ==
    /\ pc = "lex"
    /\ mo.kind = "MISMATCH"
    /\ lex' = Scanned([lex EXCEPT !.reports =
                  Append(@, [line_num |-> lex.line_num, value |-> value, at |-> mo.start])])
    /\ pc' = pc
    /\ LexIdle

lex_token ==
    /\ pc = "lex"
    /\ mo.kind \notin {"", "NEWLINE", "SKIP", "COMMENT", "MISMATCH"}
    /\ lex' = Scanned([lex EXCEPT !.tokens =
                  Append(@, [kind |-> mo.kind, value |-> value, line_num |-> lex.line_num])])
    /\ pc' = pc
    /\ LexIdle

\* mo is None: return tokens
lex_return ==
    /\ pc = "lex"
    /\ mo = NoMatch
    /\ pc' = "lexed"
    /\ UNCHANGED lex
    /\ LexIdle

get_token_stream ==
    \/ lex_newline
    \/ lex_skip
    \/ lex_mismatch
    \/ lex_token
    \/ lex_return

(***************************************************************************)
(* Parser (parser.py, cst.py)                                              *)
(***************************************************************************)
\* CSTNode(node_type, value): value <<>> stands for None
CSTNode(node_type, v) == [node_type |-> node_type, value |-> v, children |-> <<>>]

\* nothing parsed yet
NoCst == [state |-> "none", node |-> CSTNode("", <<>>)]

\* the front end has not run
NoFront == source = <<>> /\ lex = NewLex(<<>>) /\ cst = NoCst

\* Parser.peek: the type of the current token, "" for None.  pos is
\* Parser.pos, so the current token is tokens[pos + 1].
peek(tokens, pos) == IF pos < Len(tokens) THEN tokens[pos + 1].kind ELSE ""

\* a parsing method returned a node, the parser standing at pos
Parsed(node, pos) == [ok |-> TRUE, node |-> node, pos |-> pos]

\* a parsing method raised SyntaxError
SyntaxError(pos) == [ok |-> FALSE, node |-> CSTNode("", <<>>), pos |-> pos]

\* Parser.eat, with advance
eat(tokens, pos, token_type) ==
    IF pos < Len(tokens) /\ tokens[pos + 1].kind = token_type
    THEN Parsed(CSTNode("TERMINAL", tokens[pos + 1].value), pos + 1)
    ELSE SyntaxError(pos)

\* node.add_child(<the outcome r of a parsing method>): the exception goes through
add_child(acc, r) ==
    IF ~acc.ok THEN acc
    ELSE IF ~r.ok THEN SyntaxError(r.pos)
    ELSE Parsed([acc.node EXCEPT !.children = Append(@, r.node)], r.pos)

\* self.parse_x(): the call of the parsing method of that name at pos
RECURSIVE parse(_, _, _)

\* node.add_child(self.eat(token_type)), after the steps that gave acc
eat_child(acc, tokens, token_type) == add_child(acc, eat(tokens, acc.pos, token_type))

\* node.add_child(self.parse_x()), after the steps that gave acc
parse_child(acc, tokens, parse_x) == add_child(acc, parse(parse_x, tokens, acc.pos))

parse_literal(tokens, pos) ==
    LET n0 == Parsed(CSTNode("LITERAL", <<>>), pos)
        n1 == eat_child(n0, tokens, peek(tokens, n0.pos))
    IN  n1

parse_additive_op(tokens, pos) ==
    LET n0 == Parsed(CSTNode("ADD_OP", <<>>), pos)
        n1 == eat_child(n0, tokens, peek(tokens, n0.pos))
    IN  n1

parse_multiplicative_op(tokens, pos) ==
    LET n0 == Parsed(CSTNode("MUL_OP", <<>>), pos)
        n1 == eat_child(n0, tokens, peek(tokens, n0.pos))
    IN  n1

parse_relational_op(tokens, pos) ==
    LET n0 == Parsed(CSTNode("REL_OP", <<>>), pos)
        n1 == eat_child(n0, tokens, peek(tokens, n0.pos))
    IN  n1

parse_factor(tokens, pos) ==
    LET token_type == peek(tokens, pos)
    IN  CASE token_type = "ID" ->
               LET n0 == Parsed(CSTNode("FACTOR", <<>>), pos)
                   n1 == eat_child(n0, tokens, "ID")
               IN  n1
          [] token_type \in {"INT_LITERAL", "BOOL_LITERAL", "DIRECTION_LITERAL", "STRING_LITERAL"} ->
               LET n0 == Parsed(CSTNode("FACTOR", <<>>), pos)
                   n1 == parse_child(n0, tokens, "parse_literal")
               IN  n1
          [] token_type = "LPAREN" ->
               LET n0 == Parsed(CSTNode("FACTOR", <<>>), pos)
                   n1 == eat_child(n0, tokens, "LPAREN")
                   n2 == parse_child(n1, tokens, "parse_expression")
                   n3 == eat_child(n2, tokens, "RPAREN")
               IN  n3
          [] token_type = "SENSE" ->
               LET n0 == Parsed(CSTNode("FACTOR", <<>>), pos)
                   n1 == eat_child(n0, tokens, "SENSE")
               IN  n1
          [] token_type = "NOT" ->
               LET n0 == Parsed(CSTNode("FACTOR", <<>>), pos)
                   n1 == eat_child(n0, tokens, "NOT")
                   n2 == parse_child(n1, tokens, "parse_factor")
               IN  n2
          [] OTHER -> SyntaxError(pos)

parse_term_tail(tokens, pos) ==
    IF peek(tokens, pos) \in {"MUL", "DIV", "AND"}
    THEN
         LET n0 == Parsed(CSTNode("TERM_TAIL", <<>>), pos)
             n1 == parse_child(n0, tokens, "parse_multiplicative_op")
             n2 == parse_child(n1, tokens, "parse_factor")
             n3 == parse_child(n2, tokens, "parse_term_tail")
         IN  n3
    ELSE Parsed(CSTNode("TERM_TAIL", <<>>), pos)

parse_term(tokens, pos) ==
    LET n0 == Parsed(CSTNode("TERM", <<>>), pos)
        n1 == parse_child(n0, tokens, "parse_factor")
        n2 == parse_child(n1, tokens, "parse_term_tail")
    IN  n2

parse_expression_tail(tokens, pos) ==
    IF peek(tokens, pos) \in {"PLUS", "MINUS", "OR"}
    THEN
         LET n0 == Parsed(CSTNode("EXPRESSION_TAIL", <<>>), pos)
             n1 == parse_child(n0, tokens, "parse_additive_op")
             n2 == parse_child(n1, tokens, "parse_term")
             n3 == parse_child(n2, tokens, "parse_expression_tail")
         IN  n3
    ELSE Parsed(CSTNode("EXPRESSION_TAIL", <<>>), pos)

parse_expression(tokens, pos) ==
    LET n0 == Parsed(CSTNode("EXPRESSION", <<>>), pos)
        n1 == parse_child(n0, tokens, "parse_term")
        n2 == parse_child(n1, tokens, "parse_expression_tail")
    IN  n2

parse_condition_tail(tokens, pos) ==
    IF peek(tokens, pos) \in {"EQ", "NEQ", "LT", "LE", "GT", "GE"}
    THEN
         LET n0 == Parsed(CSTNode("CONDITION_TAIL", <<>>), pos)
             n1 == parse_child(n0, tokens, "parse_relational_op")
             n2 == parse_child(n1, tokens, "parse_expression")
         IN  n2
    ELSE Parsed(CSTNode("CONDITION_TAIL", <<>>), pos)

parse_condition(tokens, pos) ==
    LET n0 == Parsed(CSTNode("CONDITION", <<>>), pos)
        n1 == parse_child(n0, tokens, "parse_expression")
        n2 == parse_child(n1, tokens, "parse_condition_tail")
    IN  n2

parse_type(tokens, pos) ==
    IF peek(tokens, pos) \in {"TYPE_INT", "TYPE_BOOL", "TYPE_DIRECTION"}
    THEN eat_child(Parsed(CSTNode("TYPE", <<>>), pos), tokens, peek(tokens, pos))
    ELSE SyntaxError(pos)

parse_var_tail(tokens, pos) ==
    CASE peek(tokens, pos) = "SEMICOLON" ->
           LET n0 == Parsed(CSTNode("VAR_TAIL", <<>>), pos)
               n1 == eat_child(n0, tokens, "SEMICOLON")
           IN  n1
      [] peek(tokens, pos) = "ASSIGN" ->
           LET n0 == Parsed(CSTNode("VAR_TAIL", <<>>), pos)
               n1 == eat_child(n0, tokens, "ASSIGN")
               n2 == parse_child(n1, tokens, "parse_expression")
               n3 == eat_child(n2, tokens, "SEMICOLON")
           IN  n3
      [] OTHER -> SyntaxError(pos)

parse_declaration(tokens, pos) ==
    CASE peek(tokens, pos) = "CONST" ->
           LET n0 == Parsed(CSTNode("DECLARATION", <<>>), pos)
               n1 == eat_child(n0, tokens, "CONST")
               n2 == eat_child(n1, tokens, "ID")
               n3 == eat_child(n2, tokens, "COLON")
               n4 == parse_child(n3, tokens, "parse_type")
               n5 == eat_child(n4, tokens, "ASSIGN")
               n6 == parse_child(n5, tokens, "parse_expression")
               n7 == eat_child(n6, tokens, "SEMICOLON")
           IN  n7
      [] peek(tokens, pos) = "VAR" ->
           LET n0 == Parsed(CSTNode("DECLARATION", <<>>), pos)
               n1 == eat_child(n0, tokens, "VAR")
               n2 == eat_child(n1, tokens, "ID")
               n3 == eat_child(n2, tokens, "COLON")
               n4 == parse_child(n3, tokens, "parse_type")
               n5 == parse_child(n4, tokens, "parse_var_tail")
           IN  n5
      [] OTHER -> SyntaxError(pos)

\* the while loop of parse_declarations
RECURSIVE declarations_loop(_, _)
declarations_loop(tokens, acc) ==
    IF acc.ok /\ peek(tokens, acc.pos) \in {"CONST", "VAR"}
    THEN declarations_loop(tokens, parse_child(acc, tokens, "parse_declaration"))
    ELSE acc

parse_declarations(tokens, pos) ==
    declarations_loop(tokens, Parsed(CSTNode("DECLARATIONS", <<>>), pos))

parse_world_def(tokens, pos) ==
    LET n0 == Parsed(CSTNode("WORLD_DEF", <<>>), pos)
        n1 == eat_child(n0, tokens, "GRID")
        n2 == eat_child(n1, tokens, "LPAREN")
        n3 == eat_child(n2, tokens, "INT_LITERAL")
        n4 == eat_child(n3, tokens, "COMMA")
        n5 == eat_child(n4, tokens, "INT_LITERAL")
        n6 == eat_child(n5, tokens, "RPAREN")
        n7 == eat_child(n6, tokens, "SEMICOLON")
    IN  n7

parse_assignment(tokens, pos) ==
    LET n0 == Parsed(CSTNode("ASSIGNMENT", <<>>), pos)
        n1 == eat_child(n0, tokens, "ID")
        n2 == eat_child(n1, tokens, "ASSIGN")
        n3 == parse_child(n2, tokens, "parse_expression")
        n4 == eat_child(n3, tokens, "SEMICOLON")
    IN  n4

parse_action(tokens, pos) ==
    IF peek(tokens, pos) \in {"MOVE", "TURN_LEFT", "TURN_RIGHT", "CLEAN", "SENSE"}
    THEN LET n0 == Parsed(CSTNode("ACTION", <<>>), pos)
             n1 == eat_child(n0, tokens, peek(tokens, n0.pos))
             n2 == eat_child(n1, tokens, "SEMICOLON")
         IN  n2
    ELSE SyntaxError(pos)

valid_starts ==
    {"ID", "IF", "WHILE", "LBRACE", "MOVE", "TURN_LEFT", "TURN_RIGHT", "CLEAN", "SENSE"}

\* the while loop of parse_statements
RECURSIVE statements_loop(_, _)
statements_loop(tokens, acc) ==
    IF acc.ok /\ peek(tokens, acc.pos) \in valid_starts
    THEN statements_loop(tokens, parse_child(acc, tokens, "parse_statement"))
    ELSE acc

parse_statements(tokens, pos) ==
    statements_loop(tokens, Parsed(CSTNode("STATEMENTS", <<>>), pos))

parse_statement(tokens, pos) ==
    LET token_type == peek(tokens, pos)
    IN  CASE token_type = "ID" -> parse("parse_assignment", tokens, pos)
          [] token_type = "IF" -> parse("parse_if", tokens, pos)
          [] token_type = "WHILE" -> parse("parse_while", tokens, pos)
          [] token_type = "LBRACE" -> parse("parse_block", tokens, pos)
          [] token_type \in {"MOVE", "TURN_LEFT", "TURN_RIGHT", "CLEAN", "SENSE"} ->
               parse("parse_action", tokens, pos)
          [] OTHER -> SyntaxError(pos)

parse_block(tokens, pos) ==
    LET n0 == Parsed(CSTNode("BLOCK", <<>>), pos)
        n1 == eat_child(n0, tokens, "LBRACE")
        n2 == parse_child(n1, tokens, "parse_statements")
        n3 == eat_child(n2, tokens, "RBRACE")
    IN  n3

parse_else_part(tokens, pos) ==
    IF peek(tokens, pos) \in {"ELSE"}
    THEN
         LET n0 == Parsed(CSTNode("ELSE_PART", <<>>), pos)
             n1 == eat_child(n0, tokens, "ELSE")
             n2 == parse_child(n1, tokens, "parse_block")
         IN  n2
    ELSE Parsed(CSTNode("ELSE_PART", <<>>), pos)

\* mutant: without an else, no ELSE_PART child is added
parse_if_NoPlaceholder(tokens, pos) ==
    LET n0 == Parsed(CSTNode("IF_STATEMENT", <<>>), pos)
        n1 == eat_child(n0, tokens, "IF")
        n2 == eat_child(n1, tokens, "LPAREN")
        n3 == parse_child(n2, tokens, "parse_condition")
        n4 == eat_child(n3, tokens, "RPAREN")
        n5 == parse_child(n4, tokens, "parse_block")
    IN  IF n5.ok /\ peek(tokens, n5.pos) = "ELSE"
        THEN parse_child(n5, tokens, "parse_else_part")
        ELSE n5

parse_if(tokens, pos) ==
    LET n0 == Parsed(CSTNode("IF_STATEMENT", <<>>), pos)
        n1 == eat_child(n0, tokens, "IF")
        n2 == eat_child(n1, tokens, "LPAREN")
        n3 == parse_child(n2, tokens, "parse_condition")
        n4 == eat_child(n3, tokens, "RPAREN")
        n5 == parse_child(n4, tokens, "parse_block")
        n6 == parse_child(n5, tokens, "parse_else_part")
    IN  n6

parse_while(tokens, pos) ==
    LET n0 == Parsed(CSTNode("WHILE_STATEMENT", <<>>), pos)
        n1 == eat_child(n0, tokens, "WHILE")
        n2 == eat_child(n1, tokens, "LPAREN")
        n3 == parse_child(n2, tokens, "parse_condition")
        n4 == eat_child(n3, tokens, "RPAREN")
        n5 == parse_child(n4, tokens, "parse_block")
    IN  n5

parse(parse_x, tokens, pos) ==
    CASE parse_x = "parse_literal" -> parse_literal(tokens, pos)
      [] parse_x = "parse_additive_op" -> parse_additive_op(tokens, pos)
      [] parse_x = "parse_multiplicative_op" -> parse_multiplicative_op(tokens, pos)
      [] parse_x = "parse_relational_op" -> parse_relational_op(tokens, pos)
      [] parse_x = "parse_factor" -> parse_factor(tokens, pos)
      [] parse_x = "parse_term_tail" -> parse_term_tail(tokens, pos)
      [] parse_x = "parse_term" -> parse_term(tokens, pos)
      [] parse_x = "parse_expression_tail" -> parse_expression_tail(tokens, pos)
      [] parse_x = "parse_expression" -> parse_expression(tokens, pos)
      [] parse_x = "parse_condition_tail" -> parse_condition_tail(tokens, pos)
      [] parse_x = "parse_condition" -> parse_condition(tokens, pos)
      [] parse_x = "parse_type" -> parse_type(tokens, pos)
      [] parse_x = "parse_var_tail" -> parse_var_tail(tokens, pos)
      [] parse_x = "parse_declaration" -> parse_declaration(tokens, pos)
      [] parse_x = "parse_declarations" -> parse_declarations(tokens, pos)
      [] parse_x = "parse_world_def" -> parse_world_def(tokens, pos)
      [] parse_x = "parse_assignment" -> parse_assignment(tokens, pos)
      [] parse_x = "parse_action" -> parse_action(tokens, pos)
      [] parse_x = "parse_statements" -> parse_statements(tokens, pos)
      [] parse_x = "parse_statement" -> parse_statement(tokens, pos)
      [] parse_x = "parse_block" -> parse_block(tokens, pos)
      [] parse_x = "parse_else_part" -> parse_else_part(tokens, pos)
      [] parse_x = "parse_if" -> parse_if(tokens, pos)
      [] parse_x = "parse_while" -> parse_while(tokens, pos)

parse_program(tokens) ==
    LET n0 == Parsed(CSTNode("PROGRAM", <<>>), 0)
        n1 == eat_child(n0, tokens, "PROGRAM")
        n2 == eat_child(n1, tokens, "ID")
        n3 == eat_child(n2, tokens, "LBRACE")
        n4 == parse_child(n3, tokens, "parse_world_def")
        n5 == parse_child(n4, tokens, "parse_declarations")
        n6 == parse_child(n5, tokens, "parse_statements")
        n7 == eat_child(n6, tokens, "RBRACE")
    IN  n7

\* CSTNode.to_dict: "value" is left out when None (<<>> here), "children"
\* when empty
RECURSIVE to_dict(_)
to_dict(n) ==
    [type |-> n.node_type, value |-> n.value,
     children |-> [i \in DOMAIN n.children |-> to_dict(n.children[i])]]

(***************************************************************************)
(* Converter (converter.py).  A CST node is the dict CSTNode.to_dict gave. *)
(***************************************************************************)
\* the str of a sequence of characters
RECURSIVE Join(_)
Join(chars) == IF chars = <<>> THEN "" ELSE Head(chars) \o Join(Tail(chars))

\* str.isdigit
isdigit(chars) == chars # <<>> /\ \A i \in DOMAIN chars : chars[i] \in Digits

\* int(val) of a string of digits
RECURSIVE int(_)
int(chars) ==
    IF chars = <<>> THEN 0
    ELSE 10 * int(SubSeq(chars, 1, Len(chars) - 1))
         + (CHOOSE d \in 0..9 : <<"0", "1", "2", "3", "4", "5", "6", "7", "8", "9">>[d + 1]
                                   = chars[Len(chars)])

\* a Python list standing where a statement is expected
PyList(items) == [type |-> "list", items |-> items]

\* mutant: every operator of the chain is applied, from the left
RECURSIVE flatten_expression_Fold(_), FoldTail(_, _)
FoldTail(left, tail) ==
    IF tail.children # <<>>
    THEN FoldTail(BinaryExpr(Join(tail.children[1].children[1].value), left,
                             flatten_expression_Fold(tail.children[2])),
                  tail.children[3])
    ELSE left

flatten_expression_Fold(node) ==
    IF node.type = "FACTOR" /\ node.children[1].type = "LITERAL"
    THEN LET val == node.children[1].children[1].value
         IN  IF isdigit(val) THEN Literal(IntV(int(val)))
             ELSE IF val \in {<<"t", "r", "u", "e">>, <<"f", "a", "l", "s", "e">>}
                  THEN Literal(BoolV(val = <<"t", "r", "u", "e">>))
             ELSE Literal(StrV(Join(val)))
    ELSE IF node.type = "FACTOR" /\ node.children[1].type = "TERMINAL"
    THEN IF node.children[1].value = <<"n", "o", "t">>
         THEN BinaryExpr("not", flatten_expression_Fold(node.children[2]), None)
         ELSE Identifier(Join(node.children[1].value))
    ELSE IF node.children # <<>>
    THEN IF Len(node.children) > 1
         THEN FoldTail(flatten_expression_Fold(node.children[1]), node.children[2])
         ELSE flatten_expression_Fold(node.children[1])
    ELSE None

RECURSIVE flatten_expression(_)
flatten_expression(node) ==
    IF node.type = "FACTOR" /\ node.children[1].type = "LITERAL"
    THEN LET val == node.children[1].children[1].value
         IN  IF isdigit(val) THEN Literal(IntV(int(val)))
             ELSE IF val \in {<<"t", "r", "u", "e">>, <<"f", "a", "l", "s", "e">>}
                  THEN Literal(BoolV(val = <<"t", "r", "u", "e">>))
             ELSE Literal(StrV(Join(val)))
    ELSE IF node.type = "FACTOR" /\ node.children[1].type = "TERMINAL"
    THEN \* sense, dirt and any other terminal: an Identifier; not: a BinaryExpr
         IF node.children[1].value = <<"n", "o", "t">>
         THEN BinaryExpr("not", flatten_expression(node.children[2]), None)
         ELSE Identifier(Join(node.children[1].value))
    ELSE IF node.children # <<>>
    THEN LET left == flatten_expression(node.children[1])
         IN  IF Len(node.children) > 1 /\ node.children[2].children # <<>>
             THEN LET tail == node.children[2]
                  IN  BinaryExpr(Join(tail.children[1].children[1].value), left,
                                 flatten_expression(tail.children[2]))
             ELSE left
    ELSE None

convert_expression(node) == flatten_expression(node)

convert_condition(node) ==
    LET left == flatten_expression(node.children[1])
        tail == node.children[2]
    IN  IF tail.children # <<>>
        THEN BinaryExpr(Join(tail.children[1].children[1].value), left,
                        flatten_expression(tail.children[2]))
        ELSE left

convert_declaration(decl_cst) ==
    LET first_token == decl_cst.children[1].value
        id_value == Join(decl_cst.children[2].value)
        var_type == Join(decl_cst.children[4].children[1].value)
    IN  IF first_token = <<"c", "o", "n", "s", "t">>
        THEN ConstDecl(id_value, var_type, convert_expression(decl_cst.children[6]))
        ELSE LET var_tail == decl_cst.children[5]
             IN  VarDecl(id_value, var_type,
                         IF Len(var_tail.children) > 1
                         THEN convert_expression(var_tail.children[2])
                         ELSE None)

convert_assignment(node) ==
    Assign(Join(node.children[1].value), convert_expression(node.children[3]))

convert_action(node) == ActionStmt(Join(node.children[1].value))

RECURSIVE convert_statement(_), convert_block(_), convert_if(_), convert_while(_)
convert_block(node) ==
    IF Len(node.children) > 1
    THEN [i \in DOMAIN node.children[2].children |->
             convert_statement(node.children[2].children[i])]
    ELSE <<>>

convert_if(node) ==
    LET else_part == node.children[6]
    IN  IfStmt(convert_condition(node.children[3]), convert_block(node.children[5]),
               IF else_part.children # <<>>
               THEN List(convert_block(else_part.children[2]))
               ELSE NoneList)

convert_while(node) ==
    WhileStmt(convert_condition(node.children[3]), convert_block(node.children[5]))

convert_statement(stmt_cst) ==
    CASE stmt_cst.type = "ASSIGNMENT" -> convert_assignment(stmt_cst)
      [] stmt_cst.type = "IF_STATEMENT" -> convert_if(stmt_cst)
      [] stmt_cst.type = "WHILE_STATEMENT" -> convert_while(stmt_cst)
      [] stmt_cst.type = "ACTION" -> convert_action(stmt_cst)
      [] stmt_cst.type = "BLOCK" -> PyList(convert_block(stmt_cst))
      [] OTHER -> None

convert_cst_to_ast(cst_node) ==
    IF cst_node.type = "PROGRAM" /\ cst_node.children # <<>>
    THEN [name |-> Join(cst_node.children[2].value),
          body |->
            (IF Len(cst_node.children) > 4
             THEN [i \in DOMAIN cst_node.children[5].children |->
                      convert_declaration(cst_node.children[5].children[i])]
             ELSE <<>>)
            \o
            (IF Len(cst_node.children) > 5
             THEN [i \in DOMAIN cst_node.children[6].children |->
                      convert_statement(cst_node.children[6].children[i])]
             ELSE <<>>)]
    ELSE None

(***************************************************************************)
(* main: the pipeline entry point                                          *)
(***************************************************************************)
\* [2/5] Parser(tokens).parse_program(); a SyntaxError is not caught by main
main_parse ==
    /\ pc = "lexed"
    /\ mode = "clean"
    /\ LET r == parse_program(lex.tokens)
       IN  IF r.ok
           THEN cst' = [state |-> "ok", node |-> r.node] /\ pc' = "parsed"
           ELSE cst' = [state |-> "SyntaxError", node |-> CSTNode("", <<>>)] /\ pc' = "exit"
    /\ UNCHANGED <<mode, ast, errors, env, const_vars, grid, stack, status, error, raised,
                   last, loop, source, lex>>

\* [3/5] convert_cst_to_ast(cst.to_dict())
main_convert ==
    /\ pc = "parsed"
    /\ ast' = convert_cst_to_ast(to_dict(cst.node))
    /\ pc' = "start"
    /\ UNCHANGED <<mode, errors, env, const_vars, grid, stack, status, error, raised,
                   last, loop>>
    /\ UNCHANGED front

\* mutant: the diagnostics are printed but main goes on
AfterAnalysis_Open(errs) == "interpret"

\* `if errors: ... sys.exit(1)`
AfterAnalysis(errs) == IF errs # <<>> THEN "exit" ELSE "interpret"

\* [4/5] semantic analysis of a .clean source; an exception of analyze is
\* caught nowhere and ends main
main_analyze ==
    /\ pc = "start"
    /\ mode = "clean"
    /\ IF analyze_raises(ast)
       THEN /\ error' = "AttributeError"
            /\ pc' = "exit"
            /\ UNCHANGED errors
       ELSE /\ errors' = analyze(ast)
            /\ pc' = AfterAnalysis(analyze(ast))
            /\ UNCHANGED error
    /\ UNCHANGED <<mode, ast, env, const_vars, grid, stack, status, raised, last, loop>>
    /\ UNCHANGED front

\* a .json file is loaded as the AST
main_load_ast ==
    /\ pc = "start"
    /\ mode = "json"
    /\ pc' = "interpret"
    /\ UNCHANGED <<mode, ast, errors, env, const_vars, grid, stack, status, error, raised, last, loop>>
    /\ UNCHANGED front

\* mutant: the grid has the size written in the source
main_interpreter_WorldDef ==
    /\ pc = "interpret"
    /\ env' = NewEnvironment
    /\ const_vars' = {}
    /\ grid' = IF cst.state = "ok"
               THEN <<GridWorld(int(cst.node.children[4].children[3].value),
                                int(cst.node.children[4].children[5].value))>>
               ELSE <<GridWorld(5, 5)>>
    /\ pc' = "run"
    /\ UNCHANGED <<mode, ast, errors, stack, status, error, raised, last, loop>>
    /\ UNCHANGED front

\* Interpreter(ast) and the default 5x5 grid
main_interpreter ==
    /\ pc = "interpret"
    /\ env' = NewEnvironment
    /\ const_vars' = {}
    /\ grid' = <<GridWorld(5, 5)>>
    /\ pc' = "run"
    /\ UNCHANGED <<mode, ast, errors, stack, status, error, raised, last, loop>>
    /\ UNCHANGED front

\* run returned or raised: report and exit
main_finish ==
    /\ pc = "run"
    /\ status \in {"completed", "aborted"}
    /\ pc' = IF status = "completed" THEN "done" ELSE "exit"
    /\ UNCHANGED <<mode, ast, errors, env, const_vars, grid, stack, status, error, raised, last, loop>>
    /\ UNCHANGED front

(***************************************************************************)
(* The programs the model is run on.                                       *)
(***************************************************************************)
MaxDecls == 2

MaxStmts == 2

x_ == Identifier("x")

one == Literal(IntV(1))

x_plus_1 == BinaryExpr("+", x_, one)

one_div_x == BinaryExpr("/", one, x_)

x_lt(i) == BinaryExpr("<", x_, Literal(IntV(i)))

DeclPool ==
    { VarDecl("x", "int", None), VarDecl("y", "direction", None),
      VarDecl("y", "int", one_div_x),
      ConstDecl("x", "int", one), ConstDecl("y", "int", one_div_x) }

StmtPool ==
    { Assign("x", x_plus_1), Assign("y", one_div_x), Assign("x", Identifier("y")),
      ActionStmt("move"), ActionStmt("turnRight"),
      IfStmt(x_lt(2), <<ActionStmt("move")>>, List(<<Assign("y", one_div_x)>>)),
      IfStmt(one_div_x, <<ActionStmt("turnRight"), Assign("x", x_plus_1)>>, NoneList) }

SeqsUpTo(S, n) == UNION { [1..m -> S] : m \in 0..n }

LoopTests == { Literal(BoolV(TRUE)), x_lt(2), x_lt(max_iterations) }

LoopBodies ==
    { <<Assign("x", x_plus_1)>>,
      <<ActionStmt("turnLeft")>>,
      <<ActionStmt("move"), Assign("x", x_plus_1)>>,
      <<WhileStmt(Literal(BoolV(TRUE)), <<>>)>> }

Loops == { WhileStmt(t, b) : t \in LoopTests, b \in LoopBodies }

\* statements in a fixed context: the loops, an if on sense, a node of no known type
LongStmts ==
    Loops \cup { IfStmt(Identifier("sense"), <<ActionStmt("clean")>>,
                        List(<<ActionStmt("sense"), ActionStmt("turnLeft")>>)),
                 [type |-> "Nop"] }

LoopPrograms ==
    { <<VarDecl("x", "int", None), ActionStmt("turnRight"), s, Assign("x", one)>> :
        s \in LongStmts }

\* programs that walk to the dirty cell (2,2), read sense in an
\* initializer, an assignment, a while test and an if test, and clean
GridPrograms ==
    { <<VarDecl("y", "bool", None),
        ActionStmt("turnRight"), ActionStmt("move"), ActionStmt("move"),
        ActionStmt("turnRight"), ActionStmt("move"), ActionStmt("move"),
        Assign("y", Identifier("sense")),
        ActionStmt("sense"),
        WhileStmt(Identifier("sense"), <<ActionStmt("clean")>>),
        ActionStmt("sense"),
        IfStmt(BinaryExpr("not", Identifier("sense"), None), <<ActionStmt("turnLeft")>>, NoneList)>>,
      <<VarDecl("y", "bool", Identifier("sense")),
        ConstDecl("x", "bool", BinaryExpr("==", Identifier("sense"), Identifier("y"))),
        ActionStmt("clean"), ActionStmt("sense"), ActionStmt("clean")>> }

Program(body) == [name |-> "p", body |-> body]

NoLast == [top |-> 0, stmt |-> None]

NoLoop == [outcome |-> "", tests |-> 0, runs |-> 0]

Init ==
    /\ mode \in {"clean", "json"}
    \* declarations first, then statements, as parse_program lays them out
    /\ \/ \E d \in SeqsUpTo(DeclPool, MaxDecls), t \in SeqsUpTo(StmtPool, MaxStmts) :
             ast = Program(d \o t)
       \/ \E b \in LoopPrograms : ast = Program(b)
       \/ \E b \in GridPrograms : ast = Program(b)
    /\ pc = "start"
    /\ errors = <<>>
    /\ env = NewEnvironment
    /\ const_vars = {}
    /\ grid = <<>>
    /\ stack = <<>>
    /\ status = "idle"
    /\ error = ""
    /\ raised = 0
    /\ last = NoLast
    /\ loop = NoLoop
    /\ NoFront

Next ==
    \/ main_analyze
    \/ main_load_ast
    \/ main_interpreter
    \/ run
    \/ execute_stmt
    \/ main_finish

Spec == Init /\ [][Next]_vars

(***************************************************************************)
(* GridSpec: a GridWorld on its own, under any sequence of calls.          *)
(***************************************************************************)
MaxDim == 4

Call(op, ok, err) == [op |-> op, ok |-> ok, err |-> err]

GridInit ==
    /\ \E w \in 0..MaxDim, h \in 0..MaxDim : grid = <<GridWorld(w, h)>>
    /\ mode = "grid"
    /\ ast = [name |-> "", body |-> <<>>]
    /\ pc = "grid"
    /\ errors = <<>>
    /\ env = NewEnvironment
    /\ const_vars = {}
    /\ stack = <<>>
    /\ status = "idle"
    /\ error = ""
    /\ raised = 0
    /\ last = Call("__init__", TRUE, "")
    /\ loop = NoLoop
    /\ NoFront

grid_move ==
    /\ pc = "grid"
    /\ grid' = <<move(grid[1]).g>>
    /\ last' = Call("move", move(grid[1]).ok, move(grid[1]).err)
    /\ UNCHANGED <<mode, ast, pc, errors, env, const_vars, stack, status, error, raised, loop>>
    /\ UNCHANGED front

grid_turn_left ==
    /\ pc = "grid"
    /\ grid' = <<turn_left(grid[1])>>
    /\ last' = Call("turn_left", TRUE, "")
    /\ UNCHANGED <<mode, ast, pc, errors, env, const_vars, stack, status, error, raised, loop>>
    /\ UNCHANGED front

grid_turn_right ==
    /\ pc = "grid"
    /\ grid' = <<turn_right(grid[1])>>
    /\ last' = Call("turn_right", TRUE, "")
    /\ UNCHANGED <<mode, ast, pc, errors, env, const_vars, stack, status, error, raised, loop>>
    /\ UNCHANGED front

grid_clean ==
    /\ pc = "grid"
    /\ grid' = <<clean(grid[1])>>
    /\ last' = Call("clean", TRUE, "")
    /\ UNCHANGED <<mode, ast, pc, errors, env, const_vars, stack, status, error, raised, loop>>
    /\ UNCHANGED front

grid_sense ==
    /\ pc = "grid"
    /\ last' = Call("sense", sense(grid[1]), "")
    /\ UNCHANGED <<mode, ast, pc, errors, env, const_vars, grid, stack, status, error, raised, loop>>
    /\ UNCHANGED front

GridNext ==
    \/ grid_move
    \/ grid_turn_left
    \/ grid_turn_right
    \/ grid_clean
    \/ grid_sense

GridSpec == GridInit /\ [][GridNext]_vars

(***************************************************************************)
(* SemSpec: analyze on its own, over nested statements.                    *)
(***************************************************************************)
MaxSemDecls == 2

MaxNest == 2

MaxDup == 3

SemDecls ==
    { VarDecl("x", "int", None), ConstDecl("x", "int", Literal(IntV(5))),
      ConstDecl("y", "int", Identifier("x")), VarDecl("y", "bool", Identifier("z")) }

SemSimple ==
    { Assign("x", Literal(IntV(6))), Assign("y", BinaryExpr("+", Identifier("x"), Identifier("z"))),
      Assign("z", Identifier("y")), ActionStmt("move") }

SemTest1 == Identifier("sense")

SemTest2 == BinaryExpr("<", Identifier("y"), BinaryExpr("not", Identifier("z"), None))

\* statements nested up to d levels of if / while
RECURSIVE SemStmts(_)
SemStmts(d) ==
    IF d = 0 THEN SemSimple
    ELSE LET S == SemStmts(d - 1)
         IN  S \cup { IfStmt(SemTest1, <<s>>, NoneList) : s \in S }
               \cup { IfStmt(SemTest2, <<s>>, List(<<s>>)) : s \in S }
               \cup { WhileStmt(SemTest1, <<s>>) : s \in S }
               \cup { WhileStmt(SemTest2, <<s>>) : s \in S }

\* one name declared again and again, then assigned
DupDecls == { VarDecl("x", "int", None), ConstDecl("x", "int", Literal(IntV(5))) }

DupStmts ==
    { <<>>, <<Assign("x", Literal(IntV(6)))>>,
      <<WhileStmt(SemTest2, <<Assign("x", Literal(IntV(6)))>>), Assign("x", Identifier("x"))>> }

SemInit ==
    /\ \/ \E d \in SeqsUpTo(SemDecls, MaxSemDecls),
             s \in SeqsUpTo(SemStmts(MaxNest), 1),
             t \in SeqsUpTo(SemSimple, 1) : ast = Program(d \o s \o t)
       \/ \E d \in SeqsUpTo(DupDecls, MaxDup), e \in SeqsUpTo(SemDecls, 1), t \in DupStmts :
             ast = Program(d \o e \o t)
    /\ mode = "clean"
    /\ pc = "start"
    /\ errors = <<>>
    /\ env = NewEnvironment
    /\ const_vars = {}
    /\ grid = <<>>
    /\ stack = <<>>
    /\ status = "idle"
    /\ error = ""
    /\ raised = 0
    /\ last = NoLast
    /\ loop = NoLoop
    /\ NoFront

sem_analyze ==
    /\ pc = "start"
    /\ errors' = analyze(ast)
    /\ pc' = "analyzed"
    /\ UNCHANGED <<mode, ast, env, const_vars, grid, stack, status, error, raised, last, loop>>
    /\ UNCHANGED front

SemNext == sem_analyze

SemSpec == SemInit /\ [][SemNext]_vars

(***************************************************************************)
(* LexSpec: get_token_stream on its own, over every short text.            *)
(***************************************************************************)
MaxChars == 3

LexAlphabet == {"i", "f", "1", "=", "!", "@", " ", "\n", "#", "\""}

\* two longer texts: a comment holding @, a string, an unclosed quote and $;
\* digits running into a keyword, == after !, a tab and an underscore
LexTexts ==
    { <<"x", " ", "=", " ", "1", " ", "@", " ", "#", " ", "c", "@", "\n",
        "i", "f", " ", "\"", "a", " ", "b", "\"", " ", "!", "=", " ", "$", "\"">>,
      <<"1", "i", "f", "@", "@", "i", "f", "\t", "!", "=", "=", "\n", "\n", "_", "1">> }

LexInit ==
    /\ source \in SeqsUpTo(LexAlphabet, MaxChars) \cup LexTexts
    /\ lex = NewLex(source)
    /\ cst = NoCst
    /\ mode = "lexer"
    /\ ast = [name |-> "", body |-> <<>>]
    /\ pc = "lex"
    /\ errors = <<>>
    /\ env = NewEnvironment
    /\ const_vars = {}
    /\ grid = <<>>
    /\ stack = <<>>
    /\ status = "idle"
    /\ error = ""
    /\ raised = 0
    /\ last = NoLast
    /\ loop = NoLoop

LexNext == get_token_stream

LexSpec == LexInit /\ [][LexNext]_vars

(***************************************************************************)
(* BareSpec: an Interpreter constructed and run by a caller that does not  *)
(* set its grid.                                                           *)
(***************************************************************************)
MaxBare == 2

BareActions == {"move", "turnLeft", "turnRight", "clean", "sense"}

\* statements around the action a
BareStmts(a) ==
    { ActionStmt(a),
      IfStmt(x_lt(2), <<ActionStmt(a)>>, NoneList),
      IfStmt(x_lt(0), <<>>, List(<<Assign("x", x_plus_1), ActionStmt(a)>>)),
      WhileStmt(x_lt(2), <<Assign("x", x_plus_1)>>),
      WhileStmt(x_lt(2), <<Assign("x", x_plus_1), ActionStmt(a)>>),
      Assign("x", x_plus_1),
      Assign("x", Identifier("sense")),
      ConstDecl("c", "int", one),
      [type |-> "Nop"] }

\* Interpreter.__init__
Interpreter_init ==
    /\ pc = "new"
    /\ env' = NewEnvironment
    /\ const_vars' = {}
    /\ grid' = <<>>
    /\ pc' = "run"
    /\ UNCHANGED <<mode, ast, errors, stack, status, error, raised, last, loop>>
    /\ UNCHANGED front

BareInit ==
    /\ mode = "bare"
    /\ \E a \in BareActions : \E t \in SeqsUpTo(BareStmts(a), MaxBare) :
          ast = Program(<<VarDecl("x", "int", None)>> \o t)
    /\ pc = "new"
    /\ errors = <<>>
    /\ env = NewEnvironment
    /\ const_vars = {}
    /\ grid = <<>>
    /\ stack = <<>>
    /\ status = "idle"
    /\ error = ""
    /\ raised = 0
    /\ last = NoLast
    /\ loop = NoLoop
    /\ NoFront

BareNext ==
    \/ Interpreter_init
    \/ run
    \/ execute_stmt

BareSpec == BareInit /\ [][BareNext]_vars

(***************************************************************************)
(* FairSpec: main on a .json AST with nested loops, the interpreter taking *)
(* its next step as long as it has one: run is one sequential call.        *)
(***************************************************************************)
true_ == Literal(BoolV(TRUE))

false_ == Literal(BoolV(FALSE))

Less(nm, n) == BinaryExpr("<", Identifier(nm), Literal(IntV(n)))

Incr(nm) == Assign(nm, BinaryExpr("+", Identifier(nm), Literal(IntV(1))))

NestedPrograms ==
    { \* while (true) { while (true) { } }
      <<WhileStmt(true_, <<WhileStmt(true_, <<>>)>>)>>,
      \* while (x < 2) { x = x + 1; while (true) { turnLeft; } }
      <<VarDecl("x", "int", Literal(IntV(0))),
        WhileStmt(Less("x", 2), <<Incr("x"), WhileStmt(true_, <<ActionStmt("turnLeft")>>)>>)>>,
      \* while (x < 3) { y = 0; while (y < 2) { y = y + 1; } x = x + 1; } turnRight;
      <<VarDecl("x", "int", Literal(IntV(0))), VarDecl("y", "int", Literal(IntV(0))),
        WhileStmt(Less("x", 3),
                  <<Assign("y", Literal(IntV(0))), WhileStmt(Less("y", 2), <<Incr("y")>>),
                    Incr("x")>>),
        ActionStmt("turnRight")>>,
      \* while (true) { while (false) { clean; } }
      <<WhileStmt(true_, <<WhileStmt(false_, <<ActionStmt("clean")>>)>>)>>,
      \* three levels: while (x < 2) { x = x + 1; while (true) { while (false) { } } }
      <<VarDecl("x", "int", Literal(IntV(0))),
        WhileStmt(Less("x", 2),
                  <<Incr("x"), WhileStmt(true_, <<WhileStmt(false_, <<>>)>>)>>)>>,
      \* a loop in the branch of an if
      <<ConstDecl("c", "bool", true_),
        IfStmt(Identifier("c"), <<WhileStmt(Identifier("c"), <<>>)>>, NoneList)>>,
      \* a node of no known type after a loop that ends
      <<WhileStmt(false_, <<>>), [type |-> "Nop"]>> }

FairInit ==
    /\ mode = "json"
    /\ \E b \in NestedPrograms : ast = Program(b)
    /\ pc = "start"
    /\ errors = <<>>
    /\ env = NewEnvironment
    /\ const_vars = {}
    /\ grid = <<>>
    /\ stack = <<>>
    /\ status = "idle"
    /\ error = ""
    /\ raised = 0
    /\ last = NoLast
    /\ loop = NoLoop
    /\ NoFront

FairNext ==
    \/ main_load_ast
    \/ main_interpreter
    \/ run
    \/ execute_stmt
    \/ main_finish

FairSpec == FairInit /\ [][FairNext]_vars /\ WF_vars(FairNext)

(***************************************************************************)
(* PipeSpec: main on a .clean source file, from the text to the end of the *)
(* run.                                                                    *)
(***************************************************************************)
\* the integers written in grid(w, h)
PipeDims == { <<"5">>, <<"1">>, <<"1", "2">> }

\* program p{grid(w,h); body }
SourceOf(w, h, body) ==
    <<"p", "r", "o", "g", "r", "a", "m", " ", "p", "{", "g", "r", "i", "d", "(">>
    \o w \o <<",">> \o h \o <<")", ";">> \o body \o <<"}">>

\* declarations and statements of the programs
PipeBodies ==
    {
      \* x = 1 + 2 + 3:  var x:int;x=1+2+3;
      <<"v", "a", "r", " ", "x", ":", "i", "n", "t", ";", "x", "=", "1", "+", "2",
        "+", "3", ";">>,
      \* four operands, then a chain of -:  var x:int;x=1+2+3+4;x=x-1-1;
      <<"v", "a", "r", " ", "x", ":", "i", "n", "t", ";", "x", "=", "1", "+", "2",
        "+", "3", "+", "4", ";", "x", "=", "x", "-", "1", "-", "1", ";">>,
      \* chains of * inside a chain of +:  var x:int=2*3*4;x=1+2*3*4+5;
      <<"v", "a", "r", " ", "x", ":", "i", "n", "t", "=", "2", "*", "3", "*", "4",
        ";", "x", "=", "1", "+", "2", "*", "3", "*", "4", "+", "5", ";">>,
      \* chains of / in a const, and/or chains:  const c:int=8/2/2;var b:bool;b=true or false or b;b=b and true and false;
      <<"c", "o", "n", "s", "t", " ", "c", ":", "i", "n", "t", "=", "8", "/", "2",
        "/", "2", ";", "v", "a", "r", " ", "b", ":", "b", "o", "o", "l", ";", "b",
        "=", "t", "r", "u", "e", " ", "o", "r", " ", "f", "a", "l", "s", "e", " ",
        "o", "r", " ", "b", ";", "b", "=", "b", " ", "a", "n", "d", " ", "t", "r",
        "u", "e", " ", "a", "n", "d", " ", "f", "a", "l", "s", "e", ";">>,
      \* if with else, a chain in the condition:  var x:int; (newline) if (x < 1+1+1) { move; } else { turnLeft; }
      <<"v", "a", "r", " ", "x", ":", "i", "n", "t", ";", "\n", "i", "f", " ", "(",
        "x", " ", "<", " ", "1", "+", "1", "+", "1", ")", " ", "{", " ", "m", "o",
        "v", "e", ";", " ", "}", " ", "e", "l", "s", "e", " ", "{", " ", "t", "u",
        "r", "n", "L", "e", "f", "t", ";", " ", "}">>,
      \* if without else, a condition without tail:  var b:bool=true;if(b){turnRight;move;}
      <<"v", "a", "r", " ", "b", ":", "b", "o", "o", "l", "=", "t", "r", "u", "e",
        ";", "i", "f", "(", "b", ")", "{", "t", "u", "r", "n", "R", "i", "g", "h",
        "t", ";", "m", "o", "v", "e", ";", "}">>,
      \* while, a comment:  var x:int; # count (newline) while(x<3){x=x+1;clean;}
      <<"v", "a", "r", " ", "x", ":", "i", "n", "t", ";", " ", "#", " ", "c", "o",
        "u", "n", "t", "\n", "w", "h", "i", "l", "e", "(", "x", "<", "3", ")", "{",
        "x", "=", "x", "+", "1", ";", "c", "l", "e", "a", "n", ";", "}">>,
      \* sense in a while condition:  while(sense){clean;}
      <<"w", "h", "i", "l", "e", "(", "s", "e", "n", "s", "e", ")", "{", "c", "l",
        "e", "a", "n", ";", "}">>,
      \* sense in an expression; not:  var b:bool;b=not sense;
      <<"v", "a", "r", " ", "b", ":", "b", "o", "o", "l", ";", "b", "=", "n", "o",
        "t", " ", "s", "e", "n", "s", "e", ";">>,
      \* the sense action, a direction literal:  var d:direction=north;sense;move;
      <<"v", "a", "r", " ", "d", ":", "d", "i", "r", "e", "c", "t", "i", "o", "n",
        "=", "n", "o", "r", "t", "h", ";", "s", "e", "n", "s", "e", ";", "m", "o",
        "v", "e", ";">>,
      \* a syntax error:  var x:int;x=;
      <<"v", "a", "r", " ", "x", ":", "i", "n", "t", ";", "x", "=", ";">>,
      \* a character the lexer reports:  var x:int;x=1@+2;
      <<"v", "a", "r", " ", "x", ":", "i", "n", "t", ";", "x", "=", "1", "@", "+",
        "2", ";">>,
      \* an assignment to a const:  const c:int=5;c=6;
      <<"c", "o", "n", "s", "t", " ", "c", ":", "i", "n", "t", "=", "5", ";", "c",
        "=", "6", ";">>,
      \* nested if in while, empty blocks:  var x:int;while(x<2){if(x==0){}else{clean;}x=x+2;}if(x>=2){}
      <<"v", "a", "r", " ", "x", ":", "i", "n", "t", ";", "w", "h", "i", "l", "e",
        "(", "x", "<", "2", ")", "{", "i", "f", "(", "x", "=", "=", "0", ")", "{",
        "}", "e", "l", "s", "e", "{", "c", "l", "e", "a", "n", ";", "}", "x", "=",
        "x", "+", "2", ";", "}", "i", "f", "(", "x", ">", "=", "2", ")", "{", "}">>,
      \* a division by zero at run time:  var x:int;x=1/x/2;
      <<"v", "a", "r", " ", "x", ":", "i", "n", "t", ";", "x", "=", "1", "/", "x",
        "/", "2", ";">>,
      \* a parenthesized factor:  var x:int;x=(x+1)*2;
      <<"v", "a", "r", " ", "x", ":", "i", "n", "t", ";", "x", "=", "(", "x", "+",
        "1", ")", "*", "2", ";">>,
      \* no statement:  (empty)
      <<>>,
      \* the parenthesized product x = (1 + 2) * 3:  var x:int;x=(1+2)*3;
      <<"v", "a", "r", " ", "x", ":", "i", "n", "t", ";", "x", "=", "(", "1", "+",
        "2", ")", "*", "3", ";">>,
      \* a standalone block:  var x:int;{x=1;turnRight;}move;
      <<"v", "a", "r", " ", "x", ":", "i", "n", "t", ";", "{", "x", "=", "1", ";",
        "t", "u", "r", "n", "R", "i", "g", "h", "t", ";", "}", "m", "o", "v", "e",
        ";">>,
      \* a block inside the body of an if:  var b:bool=true;if(b){{move;}}
      <<"v", "a", "r", " ", "b", ":", "b", "o", "o", "l", "=", "t", "r", "u", "e",
        ";", "i", "f", "(", "b", ")", "{", "{", "m", "o", "v", "e", ";", "}", "}">>,
      \* an undeclared name in an initializer:  var y:int=z;
      <<"v", "a", "r", " ", "y", ":", "i", "n", "t", "=", "z", ";">>,
      \* tokens after the closing brace of the program:  move;}turnLeft;
      <<"m", "o", "v", "e", ";", "}", "t", "u", "r", "n", "L", "e", "f", "t", ";">> }

PipeInit ==
    /\ mode = "clean"
    /\ \E w \in PipeDims, h \in PipeDims, body \in PipeBodies : source = SourceOf(w, h, body)
    /\ lex = NewLex(source)
    /\ cst = NoCst
    /\ ast = [name |-> "", body |-> <<>>]
    /\ pc = "lex"
    /\ errors = <<>>
    /\ env = NewEnvironment
    /\ const_vars = {}
    /\ grid = <<>>
    /\ stack = <<>>
    /\ status = "idle"
    /\ error = ""
    /\ raised = 0
    /\ last = NoLast
    /\ loop = NoLoop

\* the statements convert_statement gives to a program that passed analysis
\* have the five known types and the declarations the two Decl types
PipeNext ==
    \/ get_token_stream
    \/ main_parse
    \/ main_convert
    \/ main_analyze
    \/ main_interpreter
    \/ run
    \/ execute_var_decl
    \/ execute_const_decl
    \/ execute_assign
    \/ execute_if
    \/ execute_while
    \/ while_test
    \/ execute_action
    \/ main_finish

PipeSpec == PipeInit /\ [][PipeNext]_vars

(***************************************************************************)
(* Properties                                                              *)
(***************************************************************************)

\* C1 (as stated): whenever the Interpreter's run has started in main, the
\* diagnostics list analyze yields for the AST it runs is empty.
C1_RunOnlyWithoutDiagnostics == status # "idle" => analyze(ast) = <<>>

\* C1 (amended): when main is given a .clean source, nothing of the
\* interpreter exists or runs unless analyze returned an empty list: for a
\* program with a semantic error the run never starts and no Environment,
\* const-name set or GridWorld is created or mutated.
C1_FailClosed ==
    mode = "clean" =>
        /\ (pc \notin {"start", "exit"} \/ status # "idle"
              \/ stack # <<>> \/ grid # <<>> \/ Bound(env) # {} \/ const_vars # {})
           => (errors = <<>> /\ analyze(ast) = <<>>)
        /\ (pc # "start" /\ errors # <<>>) => pc = "exit"

C1_Witness ==
    /\ mode = "clean" /\ pc = "exit" /\ status = "idle"
    /\ errors = <<Diag("E_CONST_ASSIGN", "Cannot reassign constant", "x")>>

RECURSIVE C2_Idents(_)
C2_Idents(expr) ==
    CASE expr = None -> {}
      [] expr.type = "Identifier" -> {expr.name}
      [] expr.type = "BinaryExpr" -> C2_Idents(expr.left) \cup C2_Idents(expr.right)
      [] OTHER -> {}

\* the names of the Identifier expressions occurring anywhere in a statement list
RECURSIVE C2_Used(_)
C2_Used(stmts) ==
    IF stmts = <<>> THEN {}
    ELSE LET stmt == Head(stmts)
             here ==
               CASE stmt.type = "VarDecl" -> C2_Idents(stmt.init)
                 [] stmt.type = "ConstDecl" -> C2_Idents(stmt.value)
                 [] stmt.type = "Assign" -> C2_Idents(stmt.value)
                 [] stmt.type = "IfStmt" ->
                      C2_Idents(stmt.test) \cup C2_Used(stmt.consequent)
                        \cup C2_Used(stmt.alternate.items)
                 [] stmt.type = "WhileStmt" -> C2_Idents(stmt.test) \cup C2_Used(stmt.body)
                 [] OTHER -> {}
         IN  here \cup C2_Used(Tail(stmts))

C2_Declared(body) ==
    { body[i].id.name : i \in { j \in DOMAIN body : body[j].type \in {"VarDecl", "ConstDecl"} } }

\* C2: every Identifier expression anywhere in the body (initializers of
\* declarations included) whose name is not declared in the global scope
\* gets at least one E_UNDEFINED diagnostic naming it.
C2_UndefinedIdentifiersReported ==
    pc = "analyzed" =>
        \A nm \in C2_Used(ast.body) \ C2_Declared(ast.body) :
            \E i \in DOMAIN errors : errors[i].code = "E_UNDEFINED" /\ errors[i].name = nm

\* the number of Assign statements with target nm, at any nesting depth
RECURSIVE C3_Assigns(_, _)
C3_Assigns(stmts, nm) ==
    IF stmts = <<>> THEN 0
    ELSE LET stmt == Head(stmts)
             here ==
               CASE stmt.type = "Assign" -> IF stmt.target.name = nm THEN 1 ELSE 0
                 [] stmt.type = "IfStmt" ->
                      C3_Assigns(stmt.consequent, nm) + C3_Assigns(stmt.alternate.items, nm)
                 [] stmt.type = "WhileStmt" -> C3_Assigns(stmt.body, nm)
                 [] OTHER -> 0
         IN  here + C3_Assigns(Tail(stmts), nm)

\* how the global scope knows nm: by its first top-level declaration
C3_Category(body, nm) ==
    LET D == { j \in DOMAIN body : body[j].type \in {"VarDecl", "ConstDecl"} /\ body[j].id.name = nm }
    IN  IF D = {} THEN ""
        ELSE LET first == CHOOSE j \in D : \A k \in D : j <= k
             IN  IF body[first].type = "ConstDecl" THEN "const" ELSE "var"

C3_Count(d) == Cardinality({ i \in DOMAIN errors : errors[i] = d })

C3_ConstScenario ==
    <<ConstDecl("x", "int", Literal(IntV(5))), Assign("x", Literal(IntV(6)))>>

\* C3: each Assign, at any nesting depth, gets for its target exactly one
\* E_UNDEFINED when the name is undeclared, exactly one E_CONST_ASSIGN when it
\* is declared const, none when it is declared var; `const x: int = 5; x = 6;`
\* yields exactly one E_CONST_ASSIGN.
C3_TargetDiagnostics ==
    pc = "analyzed" =>
        /\ \A nm \in {"x", "y", "z"} :
             LET k == C3_Assigns(ast.body, nm)
                 cat == C3_Category(ast.body, nm)
             IN  /\ C3_Count(Diag("E_UNDEFINED", "Undefined variable", nm))
                      = IF cat = "" THEN k ELSE 0
                 /\ C3_Count(Diag("E_CONST_ASSIGN", "Cannot reassign constant", nm))
                      = IF cat = "const" THEN k ELSE 0
        /\ ast.body = C3_ConstScenario
             => errors = <<Diag("E_CONST_ASSIGN", "Cannot reassign constant", "x")>>

\* two assignments to a constant, in both branches of an if nested in a while
C3_Witness ==
    /\ pc = "analyzed"
    /\ C3_Category(ast.body, "x") = "const"
    /\ \E j \in DOMAIN ast.body :
          /\ ast.body[j].type = "WhileStmt"
          /\ ast.body[j].body[1].type = "IfStmt"
          /\ C3_Assigns(ast.body[j].body[1].consequent, "x") = 1
          /\ C3_Assigns(ast.body[j].body[1].alternate.items, "x") = 1
    /\ C3_Count(Diag("E_CONST_ASSIGN", "Cannot reassign constant", "x")) = 2

\* C4: a while whose test is true at every evaluation runs its body exactly
\* 10,000 times, evaluates the test 10,001 times and then raises the
\* infinite-loop error, the effects of the 10,000 iterations in place; a loop
\* whose test becomes false after k <= 10,000 body executions returns normally.
C4_IterationCap ==
    /\ \A i \in DOMAIN stack :
          stack[i].kind = "while" =>
             /\ stack[i].runs <= 10000
             /\ stack[i].tests <= 10001
             /\ stack[i].tests = 10001 => status = "aborted"
    /\ error = "InfiniteLoop" <=> loop.outcome = "raised"
    /\ loop.outcome = "raised" =>
          /\ status = "aborted"
          /\ loop.tests = 10001 /\ loop.runs = 10000
          /\ Top.kind = "while" /\ Top.runs = 10000
          /\ (Top.stmt.test = Literal(BoolV(TRUE)) /\ Top.stmt.body = <<Assign("x", x_plus_1)>>)
                => get(env, "x") = Ok(IntV(10000))
    /\ loop.outcome = "returned" =>
          /\ loop.runs <= 10000
          /\ loop.tests = loop.runs + 1
    /\ (status = "completed" /\ Len(ast.body) >= 2
          /\ ast.body[Len(ast.body) - 1] = WhileStmt(x_lt(10000), <<Assign("x", x_plus_1)>>))
          => loop = [outcome |-> "returned", tests |-> 10001, runs |-> 10000]

C4_Witness ==
    /\ status = "aborted" /\ error = "InfiniteLoop"
    /\ loop = [outcome |-> "raised", tests |-> 10001, runs |-> 10000]
    /\ get(env, "x") = Ok(IntV(10000))

\* the cell in front of the agent: north = y-1, south = y+1, east = x+1, west = x-1
C5_Front(g) ==
    CASE g.agent_direction = "north" -> <<g.agent_x, g.agent_y - 1>>
      [] g.agent_direction = "south" -> <<g.agent_x, g.agent_y + 1>>
      [] g.agent_direction = "east"  -> <<g.agent_x + 1, g.agent_y>>
      [] g.agent_direction = "west"  -> <<g.agent_x - 1, g.agent_y>>

C5_OffGrid(g) ==
    ~(C5_Front(g)[1] \in 0..(g.width - 1) /\ C5_Front(g)[2] \in 0..(g.height - 1))

\* C5: when the cell in front of the agent is off the grid, move fails with the
\* out-of-bounds error and leaves position, facing and dirt unchanged.
C5_MoveOffGridFails ==
    [][(last'.op = "move" /\ C5_OffGrid(grid[1]))
         => (~last'.ok /\ last'.err = "OutOfBounds" /\ grid' = grid)]_vars

C5_Witness ==
    /\ pc = "grid"
    /\ grid = <<GridWorld(1, 1)>>
    /\ last = Call("move", FALSE, "OutOfBounds")

\* C6: on a grid constructed with width >= 1 and height >= 1 the agent is
\* always inside [0,width) x [0,height).
C6_AgentInGrid ==
    \A i \in DOMAIN grid :
        (grid[i].width >= 1 /\ grid[i].height >= 1) =>
            /\ 0 <= grid[i].agent_x /\ grid[i].agent_x < grid[i].width
            /\ 0 <= grid[i].agent_y /\ grid[i].agent_y < grid[i].height

\* a move refused in the far corner
C6_Witness ==
    /\ pc = "grid"
    /\ grid[1].width >= 2 /\ grid[1].height >= 2
    /\ grid[1].agent_x = grid[1].width - 1 /\ grid[1].agent_y = grid[1].height - 1
    /\ last = Call("move", FALSE, "OutOfBounds")

\* C7: statements run strictly in order and the run ends completed or aborted;
\* once a statement raises, nothing later is executed, exactly one error is
\* raised and the effects of the earlier statements stay in place.
C7_AbortIsFinal ==
    [][ /\ status \in {"completed", "aborted"}
           => UNCHANGED <<status, error, raised, env, const_vars, grid, stack, last, loop>>
        /\ (status = "running" /\ status' = "aborted")
           => (raised' = 1 /\ error' # "" /\ UNCHANGED <<env, const_vars, grid>>)
        /\ status' = "completed" => (raised' = 0 /\ error' = "" /\ last'.top = Len(ast.body))
        /\ status' = "running" => (raised' = 0 /\ error' = "")
        /\ last'.top \in {last.top, last.top + 1}
        /\ status' \in {"idle", "running", "completed", "aborted"}
      ]_vars

\* an error in an if branch inside the run, after a statement that took effect
C7_Witness ==
    /\ status = "aborted" /\ raised = 1
    /\ Len(stack) = 2 /\ stack[1].i = 3 /\ stack[1].i < Len(stack[1].stmts)
    /\ Bound(env) # {}

C8_ValueExpr(stmt) == IF stmt.type = "VarDecl" THEN stmt.init ELSE stmt.value

\* the value expression is a division whose divisor evaluates to zero
C8_DividesByZero(expr) ==
    /\ expr # None
    /\ expr.type = "BinaryExpr" /\ expr.operator = "/"
    /\ evaluate_expr(expr.left, env, grid).ok
    /\ evaluate_expr(expr.right, env, grid).ok
    /\ PyEq(evaluate_expr(expr.right, env, grid).v, IntV(0))

\* C8: when the value expression of an Assign, VarDecl or ConstDecl divides by
\* zero, the statement fails with the division-by-zero error and the
\* Environment and the const-name set are as before the statement.
C8_DivisionByZeroBeforeBinding ==
    [][ ( /\ Running /\ Top.kind = "block"
          /\ CurStmt.type \in {"Assign", "VarDecl", "ConstDecl"}
          /\ CurStmt.type = "Assign" => CurStmt.target.name \notin const_vars
          /\ C8_DividesByZero(C8_ValueExpr(CurStmt)) )
        => ( /\ status' = "aborted" /\ error' = "DivisionByZero"
             /\ env' = env /\ const_vars' = const_vars )
      ]_vars

\* the refused assignment leaves its target with the value it had
C8_Witness ==
    /\ status = "aborted" /\ error = "DivisionByZero"
    /\ last.stmt = Assign("y", one_div_x)
    /\ get(env, "y") = Ok(StrV("north")) /\ get(env, "x") = Ok(IntV(0))

\* C9: an Assign to a name of the const-name set fails with the
\* const-assignment error whatever its value expression, which is not
\* evaluated, and leaves the Environment unchanged.
C9_ConstAssignFails ==
    [][ (Executing("Assign") /\ CurStmt.target.name \in const_vars)
        => (status' = "aborted" /\ error' = "ConstAssignment"
            /\ env' = env /\ const_vars' = const_vars)
      ]_vars

\* the refused assignment had a value expression that would have raised
C9_Witness ==
    /\ status = "aborted" /\ error = "ConstAssignment"
    /\ last.stmt.type = "Assign"
    /\ ~evaluate_expr(last.stmt.value, env, grid).ok

\* C10 (as stated): an Assign to a name bound in no Environment fails with the
\* undefined-variable error and creates no binding.
C10_UnboundAssignUndefined ==
    [][ (Executing("Assign") /\ CurStmt.target.name \notin Bound(env))
        => (status' = "aborted" /\ error' = "UndefinedVariable" /\ env' = env)
      ]_vars

\* C10 (amended): an Assign to a name bound in no Environment always fails and
\* creates no binding; the error is the undefined-variable error when the value
\* expression evaluates, and the error of the value expression otherwise.
C10_UnboundAssignFails ==
    [][ (Executing("Assign") /\ CurStmt.target.name \notin Bound(env))
        => ( /\ status' = "aborted" /\ env' = env
             /\ error' = IF evaluate_expr(CurStmt.value, env, grid).ok
                         THEN "UndefinedVariable"
                         ELSE evaluate_expr(CurStmt.value, env, grid).err )
      ]_vars

C10_Witness ==
    /\ status = "aborted" /\ error = "UndefinedVariable"
    /\ last.stmt.type = "Assign"
    /\ last.stmt.target.name \notin Bound(env)
    /\ evaluate_expr(last.stmt.value, env, grid).ok

\* the number of top-level declarations of nm
C12_Declarations(body, nm) ==
    Cardinality({ j \in DOMAIN body :
                    body[j].type \in {"VarDecl", "ConstDecl"} /\ body[j].id.name = nm })

\* the diagnostics with a given code, in the order analyze returned them
C12_Codes == [i \in DOMAIN errors |-> errors[i].code]

\* C12: a name declared k >= 1 times gets exactly k-1 E_DUP_DECL diagnostics;
\* analysis goes on through both passes (the duplicates come first, the
\* diagnostics of the resolution pass follow), and the name resolves to the
\* category of its first declaration: an Assign to it yields E_CONST_ASSIGN
\* if and only if the first declaration is a ConstDecl.
C12_DuplicateDeclarations ==
    pc = "analyzed" =>
        /\ \A nm \in {"x", "y", "z"} :
             LET k == C12_Declarations(ast.body, nm)
                 first == CHOOSE j \in DOMAIN ast.body \cup {0} :
                            \/ /\ j # 0
                               /\ ast.body[j].type \in {"VarDecl", "ConstDecl"}
                               /\ ast.body[j].id.name = nm
                               /\ \A i \in 1..(j - 1) :
                                     ~(ast.body[i].type \in {"VarDecl", "ConstDecl"}
                                       /\ ast.body[i].id.name = nm)
                            \/ j = 0 /\ k = 0
             IN  /\ C3_Count(Diag("E_DUP_DECL", "Duplicate declaration", nm))
                      = IF k >= 1 THEN k - 1 ELSE 0
                 /\ k >= 1 =>
                      ( (C3_Count(Diag("E_CONST_ASSIGN", "Cannot reassign constant", nm)) > 0)
                        <=> (ast.body[first].type = "ConstDecl" /\ C3_Assigns(ast.body, nm) > 0) )
                 /\ k >= 1 =>
                      C3_Count(Diag("E_CONST_ASSIGN", "Cannot reassign constant", nm))
                        = IF ast.body[first].type = "ConstDecl" THEN C3_Assigns(ast.body, nm) ELSE 0
        \* both passes ran to the end: every duplicate precedes every other diagnostic
        /\ \A i, j \in DOMAIN errors :
             (C12_Codes[i] = "E_DUP_DECL" /\ C12_Codes[j] # "E_DUP_DECL") => i < j

\* x declared three times, const first, and assigned twice
C12_Witness ==
    /\ pc = "analyzed"
    /\ C12_Declarations(ast.body, "x") = 3
    /\ ast.body[1].type = "ConstDecl" /\ ast.body[2].type = "VarDecl"
    /\ C3_Count(Diag("E_DUP_DECL", "Duplicate declaration", "x")) = 2
    /\ C3_Count(Diag("E_CONST_ASSIGN", "Cannot reassign constant", "x")) = 2

\* the cycle of the claim: north -> east -> south -> west -> north
C13_RightOf(d) ==
    CASE d = "north" -> "east" [] d = "east" -> "south"
      [] d = "south" -> "west" [] d = "west" -> "north"

C13_LeftOf(d) ==
    CASE d = "north" -> "west" [] d = "west" -> "south"
      [] d = "south" -> "east" [] d = "east" -> "north"

\* C13: turnRight steps through north -> east -> south -> west -> north and
\* turnLeft through the reverse; from any facing turnLeft then turnRight, and
\* turnRight then turnLeft, restore the facing, and four turns in one
\* direction are the identity on facing.
C13_TurnsAreInverse ==
    [][ /\ last'.op = "turn_right"
           => grid'[1].agent_direction = C13_RightOf(grid[1].agent_direction)
        /\ last'.op = "turn_left"
           => grid'[1].agent_direction = C13_LeftOf(grid[1].agent_direction)
        /\ turn_right(turn_left(grid[1])).agent_direction = grid[1].agent_direction
        /\ turn_left(turn_right(grid[1])).agent_direction = grid[1].agent_direction
        /\ turn_right(turn_right(turn_right(turn_right(grid[1])))).agent_direction
             = grid[1].agent_direction
        /\ turn_left(turn_left(turn_left(turn_left(grid[1])))).agent_direction
             = grid[1].agent_direction
      ]_vars

\* a left turn from north, the wrap of the cycle
C13_Witness ==
    /\ pc = "grid"
    /\ last = Call("turn_left", TRUE, "")
    /\ grid[1].agent_direction = "west"
    /\ grid[1].agent_x = 0 /\ grid[1].agent_y = 0

\* C14: clean never fails and removes at most the agent's cell from the dirt
\* set (nothing when the cell has no dirt); calling it twice in a row leaves
\* the state a single call leaves.
C14_CleanIdempotent ==
    [][ /\ last'.op = "clean" =>
             /\ last'.ok
             /\ grid'[1].dirt = grid[1].dirt \ {<<grid[1].agent_x, grid[1].agent_y>>}
             /\ grid'[1] = [grid[1] EXCEPT !.dirt = grid'[1].dirt]
             /\ clean(grid'[1]) = grid'[1]
        /\ clean(clean(grid[1])) = clean(grid[1])
      ]_vars

\* the agent has cleaned the dirty cell (2,2)
C14_Witness ==
    /\ pc = "grid"
    /\ last = Call("clean", TRUE, "")
    /\ grid[1].agent_x = 2 /\ grid[1].agent_y = 2
    /\ grid[1].dirt = {<<3, 1>>, <<1, 3>>}

C16_IsMismatch(m) == m.kind = "MISMATCH"

C16_IsToken(m) == m.kind \notin {"NEWLINE", "SKIP", "COMMENT", "MISMATCH"}

\* the text between two offsets
C16_Text(m) == SubSeq(source, m.start + 1, m.end)

\* offset p lies in a comment: a # stands before it on its line
C16_InComment(p) ==
    \E q \in 0..(p - 1) :
        source[q + 1] = "#" /\ \A r \in q..(p - 1) : source[r + 1] # "\n"

\* C16: get_token_stream scans every character exactly once (the matches
\* follow one another without gap or overlap and end at the end of the text);
\* each unrecognized character gives one lexical-error report and no token,
\* scanning goes on at the very next character, and the recognized tokens
\* before and after it are in the returned list in source order.
C16_ScanEveryCharacterOnce ==
    LET spans == lex.spans
        bad == SelectSeq(spans, C16_IsMismatch)
        good == SelectSeq(spans, C16_IsToken)
    IN  /\ \A i \in DOMAIN spans :
             /\ spans[i].start = IF i = 1 THEN 0 ELSE spans[i - 1].end
             /\ spans[i].end > spans[i].start
        /\ lex.pos = IF spans = <<>> THEN 0 ELSE spans[Len(spans)].end
        /\ pc = "lexed" => lex.pos = Len(source)
        /\ Len(lex.reports) = Len(bad)
        /\ \A i \in DOMAIN bad :
             /\ bad[i].end = bad[i].start + 1
             /\ lex.reports[i].at = bad[i].start
             /\ lex.reports[i].value = C16_Text(bad[i])
        /\ Len(lex.tokens) = Len(good)
        /\ \A i \in DOMAIN good :
             /\ lex.tokens[i].kind = good[i].kind
             /\ lex.tokens[i].value = C16_Text(good[i])
        /\ pc = "lexed" =>
             \A p \in 0..(Len(source) - 1) :
                (source[p + 1] \in {"@", "$"} /\ ~C16_InComment(p)) =>
                   /\ Cardinality({ i \in DOMAIN lex.reports : lex.reports[i].at = p }) = 1
                   /\ \A i \in DOMAIN good : ~(good[i].start <= p /\ p < good[i].end)

\* an unrecognized character between two tokens
C16_Witness ==
    /\ pc = "lexed"
    /\ source = <<"i", "@", "1">>
    /\ Len(lex.reports) = 1 /\ lex.reports[1].at = 1
    /\ Len(lex.tokens) = 2
    /\ lex.tokens[1].kind = "ID" /\ lex.tokens[2].kind = "INT_LITERAL"

\* the nodes of a CST dict, the root included
RECURSIVE C11_Nodes(_)
C11_Nodes(n) == {n} \cup UNION { C11_Nodes(n.children[i]) : i \in DOMAIN n.children }

\* the EXPRESSION and TERM nodes holding three operands or more: the tail
\* has an operator and an operand, and its own tail is not empty
C11_Chains ==
    { n \in C11_Nodes(to_dict(cst.node)) :
        /\ n.type \in {"EXPRESSION", "TERM"}
        /\ n.children[2].children # <<>>
        /\ n.children[2].children[3].children # <<>> }

\* the source whose only statement after `var x:int;` is x = 1 + 2 + 3
C11_Scenario ==
    \E w \in PipeDims, h \in PipeDims :
        source = SourceOf(w, h, <<"v", "a", "r", " ", "x", ":", "i", "n", "t", ";",
                                  "x", "=", "1", "+", "2", "+", "3", ";">>)

\* C11: a chain of three or more operands at one precedence level converts
\* to BinaryExpr(op1, a, b) of its first operator and first two operands,
\* whatever follows them; the AST main runs is that conversion, and
\* x = 1 + 2 + 3 leaves x bound to 3.
C11_ChainKeepsFirstTwo ==
    /\ cst.state = "ok" =>
          \A n \in C11_Chains :
              flatten_expression(n) =
                  BinaryExpr(Join(n.children[2].children[1].children[1].value),
                             flatten_expression(n.children[1]),
                             flatten_expression(n.children[2].children[2]))
    /\ pc \notin {"lex", "lexed", "parsed"} /\ cst.state = "ok" =>
          ast = convert_cst_to_ast(to_dict(cst.node))
    /\ C11_Scenario /\ pc \notin {"lex", "lexed", "parsed"} =>
          /\ ast.body[2] = Assign("x", BinaryExpr("+", Literal(IntV(1)), Literal(IntV(2))))
          /\ pc = "done" => env[1]["x"] = IntV(3)

C11_Witness ==
    /\ C11_Scenario
    /\ pc = "done"
    /\ C11_Chains # {}
    /\ env[1]["x"] = IntV(3)

\* the nodes of a CST, the root included
RECURSIVE C18_Nodes(_)
C18_Nodes(n) == {n} \cup UNION { C18_Nodes(n.children[i]) : i \in DOMAIN n.children }

\* the node types of the children of n
C18_Types(n) == [i \in DOMAIN n.children |-> n.children[i].node_type]

\* the values of the children of n, as strings
C18_Values(n) == [i \in DOMAIN n.children |-> Join(n.children[i].value)]

\* C18: in the CST parse_program returns, PROGRAM has 7 children,
\* IF_STATEMENT 6 of which the sixth is an ELSE_PART, WHILE_STATEMENT 5,
\* ASSIGNMENT 4, CONDITION, EXPRESSION and TERM 2; ELSE_PART and
\* CONDITION_TAIL have 0 or 2 children, EXPRESSION_TAIL and TERM_TAIL 0 or 3,
\* each child of the type the converter reads at that index.
C18_ChildLayout ==
    cst.state = "ok" =>
        /\ cst.node.node_type = "PROGRAM"
        /\ \A n \in C18_Nodes(cst.node) :
            LET t == n.node_type
                c == C18_Types(n)
            IN  /\ t = "PROGRAM" =>
                      c = <<"TERMINAL", "TERMINAL", "TERMINAL", "WORLD_DEF",
                            "DECLARATIONS", "STATEMENTS", "TERMINAL">>
                /\ t = "IF_STATEMENT" =>
                      c = <<"TERMINAL", "TERMINAL", "CONDITION", "TERMINAL", "BLOCK", "ELSE_PART">>
                /\ t = "WHILE_STATEMENT" =>
                      c = <<"TERMINAL", "TERMINAL", "CONDITION", "TERMINAL", "BLOCK">>
                /\ t = "ASSIGNMENT" =>
                      c = <<"TERMINAL", "TERMINAL", "EXPRESSION", "TERMINAL">>
                /\ t = "CONDITION" => c = <<"EXPRESSION", "CONDITION_TAIL">>
                /\ t = "EXPRESSION" => c = <<"TERM", "EXPRESSION_TAIL">>
                /\ t = "TERM" => c = <<"FACTOR", "TERM_TAIL">>
                /\ t = "ELSE_PART" => c \in {<<>>, <<"TERMINAL", "BLOCK">>}
                /\ t = "CONDITION_TAIL" => c \in {<<>>, <<"REL_OP", "EXPRESSION">>}
                /\ t = "EXPRESSION_TAIL" => c \in {<<>>, <<"ADD_OP", "TERM", "EXPRESSION_TAIL">>}
                /\ t = "TERM_TAIL" => c \in {<<>>, <<"MUL_OP", "FACTOR", "TERM_TAIL">>}
                /\ t = "ELSE_PART" /\ c # <<>> => C18_Values(n)[1] = "else"

\* an if without else next to an if with else, a condition without tail,
\* a chain whose last tail is empty
C18_Witness ==
    /\ cst.state = "ok"
    /\ \E n, m \in C18_Nodes(cst.node) :
          /\ n.node_type = "IF_STATEMENT" /\ n.children[6].children = <<>>
          /\ m.node_type = "IF_STATEMENT" /\ Len(m.children[6].children) = 2
    /\ \E n \in C18_Nodes(cst.node) :
          n.node_type = "WHILE_STATEMENT" /\ n.children[3].children[2].children # <<>>
    /\ \E n \in C18_Nodes(cst.node) :
          n.node_type = "EXPRESSION_TAIL" /\ Len(n.children) = 3 /\ n.children[3].children = <<>>

\* the declarations and statements of the source
C19_Body ==
    CHOOSE body \in PipeBodies : \E w \in PipeDims, h \in PipeDims : source = SourceOf(w, h, body)

\* the source with grid(5,5) and the same text everywhere else
C19_Reference == SourceOf(<<"5">>, <<"5">>, C19_Body)

\* the tokens of a text: the matches from offset 0 on, those of white
\* space, comments and unrecognized characters left out
RECURSIVE C19_Lex(_, _, _)
C19_Lex(text, p, acc) ==
    LET m == get_token(text, p)
    IN  IF m = NoMatch THEN acc
        ELSE C19_Lex(text, m.end,
                     IF m.kind \in {"NEWLINE", "SKIP", "COMMENT", "MISMATCH"} THEN acc
                     ELSE Append(acc, [kind |-> m.kind,
                                       value |-> SubSeq(text, m.start + 1, m.end),
                                       line_num |-> 0]))

\* what the parser gives for the reference source
C19_Parse == parse_program(C19_Lex(C19_Reference, 0, <<>>))

\* the AST of the reference source
C19_Ast == convert_cst_to_ast(to_dict(C19_Parse.node))

C19_AfterConversion == pc \notin {"lex", "lexed", "parsed"} /\ cst.state = "ok"

\* C19: the two integers of grid(w,h); have no influence.  The source
\* parses if and only if the source with grid(5,5) does; its AST and its
\* diagnostics are those of that source; the AST is not touched after the
\* conversion; the grid main creates is the 5x5 grid whatever w and h are
\* and keeps that size; once the AST is there the text, the tokens and the
\* CST are not changed.
C19_WorldDefIgnored ==
    /\ [](pc \in {"parsed", "exit"} /\ cst.state # "none" =>
              (cst.state = "ok") = C19_Parse.ok)
    /\ [](pc = "start" => ast = C19_Ast)
    /\ [][C19_AfterConversion => ast' = ast /\ UNCHANGED front]_vars
    /\ [](C19_AfterConversion /\ pc # "start" => errors = analyze(C19_Ast))
    /\ [][pc = "interpret" => grid' = <<GridWorld(5, 5)>>]_vars
    /\ [](grid # <<>> => grid[1].width = 5 /\ grid[1].height = 5)

\* a run on a source with grid(1,12) that moved the agent to column 1,
\* outside a grid one cell wide
C19_Witness ==
    /\ \E body \in PipeBodies : source = SourceOf(<<"1">>, <<"1", "2">>, body)
    /\ pc = "done"
    /\ grid # <<>>
    /\ grid[1].agent_x = 1

\* C20: analyze returns no diagnostic for the built-in identifier sense, so
\* main, given the source `while(sense){clean;}`, gets past the analysis.
C20_SensePassesAnalysis ==
    /\ \A i \in DOMAIN errors : errors[i].name # "sense"
    /\ (\E w \in PipeDims, h \in PipeDims :
           source = SourceOf(w, h, <<"w", "h", "i", "l", "e", "(", "s", "e", "n", "s", "e", ")",
                                     "{", "c", "l", "e", "a", "n", ";", "}">>))
         => ~(pc = "exit" /\ status = "idle")

\* a step that changes the state of the GridWorld of the interpreter
C17_GridChanges == grid # <<>> /\ grid' # grid

\* C17: the state of the GridWorld changes only in the step that executes
\* an ActionStmt move, turnLeft, turnRight or clean.  Steps that execute a
\* VarDecl, ConstDecl or Assign, evaluate an if or while test (those
\* reading sense included) or execute the sense action leave it as it
\* was.  A turn changes nothing but the facing, clean nothing but the dirt
\* set, move nothing but the agent position.
C17_GridFrame ==
    [][/\ C17_GridChanges =>
             /\ Executing("ActionStmt")
             /\ CurStmt.action \in {"move", "turnLeft", "turnRight", "clean"}
             /\ grid' # <<>>
       /\ (Running /\ grid # <<>> /\ ~Executing("ActionStmt")) => grid' = grid
       /\ (Executing("ActionStmt") /\ CurStmt.action = "sense") => grid' = grid
       /\ (C17_GridChanges /\ CurStmt.action \in {"turnLeft", "turnRight"}) =>
             grid'[1] = [grid[1] EXCEPT !.agent_direction = grid'[1].agent_direction]
       /\ (C17_GridChanges /\ CurStmt.action = "clean") =>
             grid'[1] = [grid[1] EXCEPT !.dirt = grid'[1].dirt]
       /\ (C17_GridChanges /\ CurStmt.action = "move") =>
             grid'[1] = [grid[1] EXCEPT !.agent_x = grid'[1].agent_x,
                                        !.agent_y = grid'[1].agent_y]
      ]_vars

\* the run that read sense at the dirty cell (2,2) in an assignment and a
\* while test, cleaned it, executed the sense action and read sense again
C17_Witness ==
    /\ status = "completed"
    /\ grid # <<>>
    /\ <<grid[1].agent_x, grid[1].agent_y>> = <<2, 2>>
    /\ grid[1].dirt = {<<3, 1>>, <<1, 3>>}
    /\ grid[1].agent_direction = "east"
    /\ "y" \in DOMAIN env[1]
    /\ env[1]["y"] = BoolV(TRUE)

\* C15: in an Interpreter whose grid the caller did not set, the step that
\* executes an ActionStmt (move, turnLeft, turnRight, clean or sense)
\* raises the grid-not-initialized error and changes neither Environment
\* nor grid, and the grid is None in every state of the run.
C15_NoGridNoAction ==
    /\ [](grid = <<>>)
    /\ [][Executing("ActionStmt") =>
             /\ CurStmt.action \in BareActions
             /\ status' = "aborted"
             /\ error' = "GridNotInitialized"
             /\ raised' = raised + 1
             /\ UNCHANGED <<env, const_vars, grid>>]_vars

\* sense, reached inside a while body after an assignment, has raised
C15_Witness ==
    /\ mode = "bare"
    /\ status = "aborted"
    /\ error = "GridNotInitialized"
    /\ last.stmt = ActionStmt("sense")
    /\ Len(stack) > 1
    /\ env[Len(env)]["x"] = IntV(1)
    /\ grid = <<>>

\* the FACTOR nodes of a CST dict of the form '(' expression ')'
RECURSIVE C21_Parenthesized(_)
C21_Parenthesized(n) ==
    (IF /\ n.type = "FACTOR"
        /\ n.children[1].type = "TERMINAL"
        /\ n.children[1].value = <<"(">>
     THEN {n} ELSE {})
    \cup UNION { C21_Parenthesized(n.children[i]) : i \in DOMAIN n.children }

\* the source whose only statement after `var x:int;` is x = (1 + 2) * 3
C21_Scenario ==
    \E w \in PipeDims, h \in PipeDims :
        source = SourceOf(w, h, <<"v", "a", "r", " ", "x", ":", "i", "n", "t", ";",
                                  "x", "=", "(", "1", "+", "2", ")", "*", "3", ";">>)

\* C21: a factor '(' expression ')' converts to the AST of the enclosed
\* expression, and main on x = (1 + 2) * 3 ends with x bound to 9.
C21_ParenthesizedFactor ==
    /\ cst.state = "ok" =>
          \A n \in C21_Parenthesized(to_dict(cst.node)) :
              flatten_expression(n) = flatten_expression(n.children[2])
    /\ C21_Scenario /\ pc \in {"done", "exit"} =>
          /\ pc = "done"
          /\ status = "completed"
          /\ get(env, "x") = Ok(IntV(9))

\* the source with the standalone block { x = 1; turnRight; } before move
C22_Scenario ==
    \E w \in PipeDims, h \in PipeDims :
        source = SourceOf(w, h, <<"v", "a", "r", " ", "x", ":", "i", "n", "t", ";",
                                  "{", "x", "=", "1", ";", "t", "u", "r", "n", "R", "i", "g", "h", "t", ";", "}",
                                  "m", "o", "v", "e", ";">>)

\* C22: a standalone block the parser accepted goes through analysis, which
\* checks its statements and returns, and through the run, which executes
\* them in order as statements of the enclosing list: main on
\* `var x:int; { x = 1; turnRight; } move;` ends as on
\* `var x:int; x = 1; turnRight; move;`, with x = 1 and the agent at (1, 0)
\* facing east.
C22_BlockCarriedThrough ==
    /\ error # "AttributeError"
    /\ C22_Scenario /\ pc \in {"done", "exit"} =>
          /\ pc = "done"
          /\ status = "completed"
          /\ get(env, "x") = Ok(IntV(1))
          /\ grid # <<>>
          /\ grid[1].agent_x = 1 /\ grid[1].agent_y = 0
          /\ grid[1].agent_direction = "east"

\* C23: a program main analyzed without a diagnostic and then ran never
\* aborts with the undefined-variable error nor with the const-assignment
\* error.
C23_AnalysisSound ==
    mode = "clean" /\ errors = <<>> /\ status = "aborted" =>
        error \notin {"UndefinedVariable", "ConstAssignment"}

\* the number of TERMINAL nodes of a CST: the tokens eat consumed
RECURSIVE C24_SumTerminals(_, _)
C24_Terminals(n) ==
    (IF n.node_type = "TERMINAL" THEN 1 ELSE 0) + C24_SumTerminals(n.children, 1)

C24_SumTerminals(children, i) ==
    IF i > Len(children) THEN 0
    ELSE C24_Terminals(children[i]) + C24_SumTerminals(children, i + 1)

\* C24: when parse_program returns a CST, the parser is at the end of the
\* token stream: every token was consumed, none is left after the closing
\* brace of the program.
C24_WholeStreamParsed ==
    cst.state = "ok" =>
        /\ parse_program(lex.tokens).ok
        /\ parse_program(lex.tokens).pos = Len(lex.tokens)
        /\ C24_Terminals(cst.node) = Len(lex.tokens)

\* the frames of the calls of execute_while that have not returned
C25_Loops == { i \in DOMAIN stack : stack[i].kind = "while" }

\* C25: every run terminates: once main has created the interpreter, the
\* run reaches completed or aborted, also when the test of a nested loop
\* never becomes false; each call of execute_while starts with its own
\* iteration counter at 0, and no counter goes beyond the 10,000-iteration
\* cap by more than the one step that raises.
C25_RunTerminates ==
    /\ [](pc = "run" => <>(status \in {"completed", "aborted"}))
    /\ [][Executing("WhileStmt") =>
            /\ Len(stack') = Len(stack) + 1
            /\ stack'[Len(stack')].kind = "while"
            /\ stack'[Len(stack')].iteration = 0]_vars
    /\ [](\A i \in C25_Loops : stack[i].iteration <= max_iterations + 1)

\* the run was aborted by the cap of an inner loop whose test never becomes
\* false, in the first iteration of the loop around it
C25_Witness ==
    /\ status = "aborted"
    /\ error = "InfiniteLoop"
    /\ \E i \in C25_Loops, j \in C25_Loops :
          /\ i < j
          /\ stack[i].iteration = 1
          /\ stack[j].iteration = max_iterations + 1
          /\ stack[j].stmt.test = true_


====
